---------------------------- MODULE Spec2Model ----------------------------
(***************************************************************************)
(* ALLCools: the extraction pipeline (src/ALLCools/_extract_allc.py), the  *)
(* MCAD counting and the BaseDSChrom position attributes.                  *)
(*                                                                         *)
(* An ALLC line is the 7-tuple the code obtains with line.split('\t'):     *)
(*   <<chrom, pos, strand, context, mc, cov, last>>.                       *)
(* Chromosomes are numbered in file order (1..NChrom); pos, mc and cov are *)
(* the integers that int(...) reads from the decimal fields.               *)
(*                                                                         *)
(* SpecMerge    : _merge_cg_strand, one loop iteration per step.           *)
(* SpecExtract  : extract_allc called un-parallelized (cpu = 1), one input *)
(*                line and one mc_context of the closing loop per step.    *)
(*                                                                         *)
(* SpecParallel : extract_allc called with cpu > 1: the parent opens its    *)
(*                handles and runs _extract_allc_parallel; a chunk task is *)
(*                one un-parallelized extract_allc call on its region and  *)
(*                a merge task one _merge_gz_files call, each one step,    *)
(*                in any order; a chunk task or a merge task may raise.    *)
(* SpecParallelFair : a call of extract_allc, un-parallelized in one step  *)
(*                or parallel as in SpecParallel, with weak fairness.      *)
(* SpecMergeGz  : _merge_gz_files, one statement per step.                 *)
(* SpecCount    : count_matrix/mcad.py, _count_single_allc, one row of the *)
(*                region bed per step.                                     *)
(* SpecMcad     : count_matrix/mcad.py, generate_mcad, one cell of the     *)
(*                submit loop or one worker per step.                      *)
(* SpecDS       : mcds/base_ds.py, BaseDSChrom, one assignment to the      *)
(*                continuity or offset property, or one position           *)
(*                selection, per step.                                     *)
(* SpecFilter   : mcds/base_ds.py, _filter_pos_by_region_df, one position  *)
(*                of the loop per step.                                    *)
(* SpecCodebook : mcds/base_ds.py, Codebook, one get_mc_pos call per step. *)
(*                                                                         *)
(* A file path f'{output_prefix}.{mc_context}-{label}.{out_suffix}' is the *)
(* tuple <<chunk, mc_context, label, out_suffix>>, chunk being the chunk   *)
(* id that _extract_allc_parallel puts into a task's output_prefix and     *)
(* NoChunk for the caller's own output_prefix.  The file system is a       *)
(* function from the paths that exist to the lines they hold.              *)
(***************************************************************************)
EXTENDS Integers, Sequences, FiniteSets, TLC

VARIABLES
    in_allc,     \* _merge_cg_strand: lines of in_path, in file order
    line_idx,    \* _merge_cg_strand: number of lines the for-loop has consumed
    prev_line,   \* _merge_cg_strand: prev_line (None when nothing is held)
    cur_chrom,   \* _merge_cg_strand: cur_chrom (NoChrom for None)
    out_allc,    \* _merge_cg_strand: lines written to out_path so far
    merge_pc,    \* _merge_cg_strand: "idle", "loop" or "returned"
    args,        \* extract_allc: the arguments of the call
    chrom_read,  \* extract_allc: parse_chrom_size has read chrom_size_path
    allc,        \* extract_allc: lines of allc_path, in file order
    files,       \* the file system: path -> lines
    indexed,     \* paths tabix_allc has been called on
    read_idx,    \* extract_allc: number of input lines the loop has consumed
    post_idx,    \* extract_allc: number of mc_contexts the closing loop has done
    ret,         \* extract_allc: the returned dict, key -> path
    pc,          \* extract_allc: position of the call
    regions,        \* _extract_allc_parallel: regions, chunk_id k - 1 at index k
    output_records, \* _extract_allc_parallel: <<chunk_id, output_path_dict>> in
                    \* the order as_completed yields the chunk tasks
    merge_lists,    \* _extract_allc_parallel: key -> ordered_file_list of the
                    \* merge task submitted for the key
    merge_done,     \* key -> TRUE (returned) or FALSE (raised) of the merge
                    \* tasks that have ended
    task_end,       \* chunk_id -> "raised" or "finished" of the chunk tasks
                    \* that ended without their result being collected
    gz_init,     \* _merge_gz_files: the file system when the call began
    gz_files,    \* _merge_gz_files: the file system, path -> lines
    gz_list,     \* _merge_gz_files: file_list
    gz_k,        \* _merge_gz_files: number of files of file_list appended
    gz_tmp,      \* _merge_gz_files: what out_f has been given so far
    gz_pc,       \* _merge_gz_files: position of the call
    bed,         \* _count_single_allc: rows <<chrom, start, end>> of region_bed
    cnt_allc,    \* _count_single_allc: lines of allc_path
    cnt_idx,     \* _count_single_allc: number of rows of region_bed done
    cnt_records, \* _count_single_allc: records, rows <<idx, mc, cov>>
    cnt_p,       \* _count_single_allc: p, NoP for None; <<mc_sum, cov_sum>>
                 \* when it is estimated as mc_sum / cov_sum
    cnt_pc,      \* _count_single_allc: position of the call
    cells,       \* generate_mcad: number of rows of allc_table
    global_path, \* generate_mcad: global_path is given
    cutoff_ok,   \* generate_mcad: 0 <= cutoff <= 1
    hdf_exists,  \* generate_mcad: idy -> what the temp output of the cell holds
    gen_idy,     \* generate_mcad: number of cells the submit loop has done
    submitted,   \* generate_mcad: set of <<idy, p>> of the submitted workers
    returned,    \* generate_mcad: idy of the workers that have returned
    gen_pc,      \* generate_mcad: position of the call
    ds_continuity, \* BaseDSChrom: dataset -> attrs['__continuity']
    ds_offset,     \* BaseDSChrom: dataset -> attrs['__offset'] (NoOffset for None, <<v>> for v)
    ds_has_pos,    \* BaseDSChrom: dataset -> 'pos' in self.coords
    ds_last,       \* BaseDSChrom: <<dataset, property, value>> of the last assignment
    ds_result,     \* BaseDSChrom: "ok" or the exception of the last assignment
    region_df,   \* _filter_pos_by_region_df: the rows <<start, end>> of region_df
    pos_idx,     \* _filter_pos_by_region_df: pos_idx
    pos_i,       \* _filter_pos_by_region_df: number of positions the loop has done
    region_row,  \* _filter_pos_by_region_df: region_row
    pos_list,    \* _filter_pos_by_region_df: pos_list
    filter_pc,   \* _filter_pos_by_region_df: "idle", "loop" or "returned"
    mc_type,     \* Codebook: the context at every place of the pos dimension
    mc_pos_cache, \* Codebook: attrs['__mc_pos_cache'], pattern -> positions
    mc_pos_bool_cache, \* Codebook: attrs['__mc_pos_bool_cache'], pattern -> bools
    cb_prev,     \* Codebook: the call before the last call
    cb_last,     \* Codebook: <<method, mc_pattern, offset>> of the last call
    cb_ret       \* Codebook: what the last call returned

mergeVars == <<in_allc, line_idx, prev_line, cur_chrom, out_allc, merge_pc>>
extractVars == <<args, chrom_read, allc, files, indexed, read_idx, post_idx, ret, pc>>
parallelVars == <<regions, output_records, merge_lists, merge_done, task_end>>
gzVars == <<gz_init, gz_files, gz_list, gz_k, gz_tmp, gz_pc>>
countVars == <<bed, cnt_allc, cnt_idx, cnt_records, cnt_p, cnt_pc>>
mcadVars == <<cells, global_path, cutoff_ok, hdf_exists, gen_idy, submitted, returned, gen_pc>>
dsVars == <<ds_continuity, ds_offset, ds_has_pos, ds_last, ds_result>>
filterVars == <<region_df, pos_idx, pos_i, region_row, pos_list, filter_pc>>
codebookVars == <<mc_type, mc_pos_cache, mc_pos_bool_cache, cb_prev, cb_last, cb_ret>>
restVars == <<gzVars, countVars, mcadVars, dsVars, filterVars, codebookVars>>
vars == <<mergeVars, extractVars, parallelVars, restVars>>

---------------------------------------------------------------------------
(* Bounds of the model *)

\* longest region bed of a _count_single_allc call
MaxBed == 3
\* largest number of rows of the allc_table of a generate_mcad call
MaxCells == 3
\* largest offset assigned to a BaseDSChrom or passed to get_mc_pos
MaxOffset == 2
\* number of BaseDSChrom objects
NumDS == 2
\* largest coordinate of a region or position given to
\* _filter_pos_by_region_df
MaxCoord == 4
\* largest number of rows of the region_df given to _filter_pos_by_region_df
MaxRegions == 3
\* length of the pos dimension of a Codebook
CodebookLen == 3

\* number of chromosomes of an input stream
NChrom == 2
\* largest position on a chromosome
MaxPos == 3
\* largest number of lines of a stream given to the strand-merge reducer
MaxLen == 3
\* largest number of lines of the input of an un-parallelized extract_allc
ExtLen == 2
\* largest number of chunks the genome is split into
MaxChunks == 3

---------------------------------------------------------------------------
(* ALLC lines and sorted streams *)

\* Python's None for prev_line (a held line is a 7-tuple, never empty)
None == <<>>
\* Python's None for cur_chrom (chromosomes are 1..NChrom)
NoChrom == 0

Chroms == 1..NChrom
Strands == {"+", "-"}
\* (mc, cov, last) fields of the lines of a CG stream
CountFields == {<<0, 1, "0">>, <<1, 2, "1">>}

\* the lines a temporary CG stream may hold
MergeLines ==
    {<<c, p, s, "CGA">> \o t : c \in Chroms, p \in 1..MaxPos, s \in Strands, t \in CountFields}

\* a precedes b in (chrom, pos) order, strictly
Before(a, b) == a[1] < b[1] \/ (a[1] = b[1] /\ a[2] < b[2])

\* all streams of at most n lines of recs, strictly ascending in (chrom, pos)
RECURSIVE SortedStreams(_, _)
SortedStreams(recs, n) ==
    IF n = 0 THEN {<<>>}
    ELSE LET shorter == SortedStreams(recs, n - 1)
         IN  shorter \cup
             {Append(x[1], x[2]) :
                 x \in {y \in shorter \X recs :
                          /\ Len(y[1]) = n - 1
                          /\ (n = 1 \/ Before(y[1][n - 1], y[2]))}}

---------------------------------------------------------------------------
(* _merge_cg_strand *)

\* lines 36-37: the merged line of a held line and the current line
MergedLine(prev, cur) ==
    SubSeq(prev, 1, 4) \o <<prev[5] + cur[5], prev[6] + cur[6], "1">>

\* mutant of UnpairedLine: a '-' line is moved one position up
UnpairedLineShiftUp(prev) ==
    IF prev[3] = "-"
    THEN <<prev[1], prev[2] + 1, "+">> \o SubSeq(prev, 4, 7)
    ELSE prev

\* lines 41-45: the held line as it is written when it does not pair
UnpairedLine(prev) ==
    IF prev[3] = "-"
    THEN <<prev[1], prev[2] - 1, "+">> \o SubSeq(prev, 4, 7)
    ELSE prev

\* line 35: the pairing test
IsPair(prev, cur) == prev[2] + 1 = cur[2] /\ prev[3] # cur[3]

\* mutant of MergeStep: the chromosome test of lines 24-29 is applied only
\* when no line is held
MergeStepNoChrom(st, cur_line) ==
    IF st.prev_line = None
    THEN [st EXCEPT !.prev_line = cur_line, !.cur_chrom = cur_line[1]]
    ELSE IF IsPair(st.prev_line, cur_line)
    THEN [st EXCEPT !.prev_line = None,
                    !.out = Append(st.out, MergedLine(st.prev_line, cur_line))]
    ELSE [st EXCEPT !.prev_line = cur_line,
                    !.out = Append(st.out, UnpairedLine(st.prev_line))]

\* lines 23-47: one iteration of the loop on the reducer state
\* st = [prev_line, cur_chrom, out]
MergeStep(st, cur_line) ==
    IF cur_line[1] # st.cur_chrom
    THEN [prev_line |-> cur_line,
          cur_chrom |-> cur_line[1],
          out       |-> IF st.prev_line # None
                        THEN Append(st.out, st.prev_line)
                        ELSE st.out]
    ELSE IF st.prev_line = None
    THEN [st EXCEPT !.prev_line = cur_line]
    ELSE IF IsPair(st.prev_line, cur_line)
    THEN [st EXCEPT !.prev_line = None,
                    !.out = Append(st.out, MergedLine(st.prev_line, cur_line))]
    ELSE [st EXCEPT !.prev_line = cur_line,
                    !.out = Append(st.out, UnpairedLine(st.prev_line))]

\* lines 17-18: the state before the first line
MergeStart == [prev_line |-> None, cur_chrom |-> NoChrom, out |-> <<>>]

\* lines 13-48 as a function: what out_path holds after the call
RECURSIVE MergeFold(_, _, _)
MergeFold(st, lines, k) ==
    IF k > Len(lines) THEN st.out
    ELSE MergeFold(MergeStep(st, lines[k]), lines, k + 1)

MergeCgStrand(lines) == MergeFold(MergeStart, lines, 1)

---------------------------------------------------------------------------
(* extract_allc: arguments, paths and the file system *)

\* the caller's own output_prefix (no chunk id in the path)
NoChunk == -1

\* concrete contexts of the input lines of an extraction
Contexts == {"CGA", "CAG"}

\* utilities.parse_mc_pattern on the requested patterns, restricted to Contexts
\* (IUPAC: N any base, H any of A, C, T; a pattern is case-insensitive)
ParseMcPattern(mc_context) ==
    CASE mc_context = "CGN" -> {"CGA"}
      [] mc_context = "cgn" -> {"CGA"}
      [] mc_context = "CHN" -> {"CAG"}
      [] mc_context = "CAN" -> {"CAG"}
      [] OTHER -> {}

\* line 358: 'CG' in mc_context, a case-sensitive substring test
\* ('CG' in 'cgn' is False)
HasCG(mc_context) == mc_context \in {"CGN"}

\* line 358: 'allc' in out_suffix
IsAllcSuffix(out_suffix) == out_suffix = "allc.tsv.gz"

\* lines 51-61: _check_strandness_parameter
CheckStrandnessParameter(strandness) ==
    CASE strandness \in {"both", "b"} -> "Both"
      [] strandness \in {"merge", "mergetmp", "m"} -> "MergeTmp"
      [] strandness \in {"split", "s"} -> "Split"
      [] OTHER -> "ValueError"

\* lines 90-96: the suffix _check_out_format_parameter returns
OutSuffix(out_format) ==
    CASE out_format = "allc" -> "allc.tsv.gz"
      [] out_format = "bed5" -> "bed5.bed.gz"
      [] OTHER -> "ValueError"

\* lines 66-88: the text a line function writes for a list; a bed5 line is
\* chrom, pos, pos, mc, cov
LineFunc(out_format, cur_line) ==
    IF out_format = "allc"
    THEN cur_line
    ELSE <<cur_line[1], cur_line[2], cur_line[2], cur_line[5], cur_line[6]>>

\* utilities.binary_count: the count-coarsening transform, (mc, cov) to 0 or
\* 1 methylated out of 1
BinaryCount(mc, cov) == IF 2 * mc > cov THEN <<1, 1>> ELSE <<0, 1>>

\* lines 69-70, 76-77: the assignment to allc_line_list[4], allc_line_list[5]
\* in place, on the list the caller passed
Binarized(cur_line) ==
    [cur_line EXCEPT ![5] = BinaryCount(cur_line[5], cur_line[6])[1],
                     ![6] = BinaryCount(cur_line[5], cur_line[6])[2]]

\* lines 65-88: cur_line after one call of line_func
LineCall(a, cur_line) == IF a.binarize THEN Binarized(cur_line) ELSE cur_line

\* lines 253-259: the call takes the parallel path
IsParallel(a) == ~ a.region /\ a.chrom_size_path /\ a.cpu > 1

\* lines 254-256: parse_chrom_size reads chrom_size_path
ReadsChromSize(a) == ~ a.region /\ a.chrom_size_path

\* mutant of McContexts: the list is used as given, set() is left out
McContextsNoSet(mc_contexts) == mc_contexts

\* lines 263-265: list(set(mc_contexts)), in first-occurrence order
RECURSIVE McContexts(_)
McContexts(mc_contexts) ==
    IF mc_contexts = <<>> THEN <<>>
    ELSE LET n    == Len(mc_contexts)
             rest == McContexts(SubSeq(mc_contexts, 1, n - 1))
         IN  IF \E i \in 1..Len(rest) : rest[i] = mc_contexts[n]
             THEN rest
             ELSE Append(rest, mc_contexts[n])

\* lines 277, 282, 293: f'{output_prefix}.{mc_context}-{label}.{out_suffix}'
Path(chunk, mc_context, label, out_suffix) == <<chunk, mc_context, label, out_suffix>>

\* open(path, 'w') followed by the writes: the file holds exactly lines
FsWrite(fs, path, lines) ==
    [q \in DOMAIN fs \cup {path} |-> IF q = path THEN lines ELSE fs[q]]

\* rm -f path
FsRemove(fs, path) == [q \in DOMAIN fs \ {path} |-> fs[q]]

\* lines 276-300: the labels of the handles opened for one mc_context
HandleLabels(strandness) ==
    IF strandness = "Split" THEN {"Watson", "Crick"} ELSE {strandness}

\* lines 274-302: the paths of handle_collect
HandlePaths(a, chunk) ==
    LET mcs == McContexts(a.mc_contexts)
    IN  {Path(chunk, mcs[i], l, OutSuffix(a.output_format)) :
            i \in 1..Len(mcs), l \in HandleLabels(CheckStrandnessParameter(a.strandness))}

\* lines 274-302: every handle is opened for writing, which creates or
\* truncates its file
OpenHandles(fs, a, chunk) ==
    [q \in DOMAIN fs \cup HandlePaths(a, chunk) |->
        IF q \in HandlePaths(a, chunk) THEN <<>> ELSE fs[q]]

\* mutant of LineHandles: in Split mode the Watson handle is registered for
\* '-' and the Crick handle for '+'
LineHandlesSwapped(a, chunk, cur_line) ==
    LET strandness == CheckStrandnessParameter(a.strandness)
        Match(m)   == cur_line[4] \in ParseMcPattern(m)
        sel        == SelectSeq(McContexts(a.mc_contexts), Match)
        label      == IF strandness = "Split"
                      THEN (IF cur_line[3] = "-" THEN "Watson" ELSE "Crick")
                      ELSE strandness
    IN  [i \in 1..Len(sel) |-> Path(chunk, sel[i], label, OutSuffix(a.output_format))]

\* mutant of LineHandles: a line whose key has no handle goes to the handle
\* of the first mc_context
LineHandlesDefault(a, chunk, cur_line) ==
    LET strandness == CheckStrandnessParameter(a.strandness)
        Match(m)   == cur_line[4] \in ParseMcPattern(m)
        sel        == SelectSeq(McContexts(a.mc_contexts), Match)
        all        == IF sel = <<>> THEN <<McContexts(a.mc_contexts)[1]>> ELSE sel
        label      == IF strandness = "Split"
                      THEN (IF cur_line[3] = "+" THEN "Watson" ELSE "Crick")
                      ELSE strandness
    IN  [i \in 1..Len(all) |-> Path(chunk, all[i], label, OutSuffix(a.output_format))]

\* lines 286-290, 301-302 and 331, 341: context_handle[key] for the key of
\* cur_line, one handle per mc_context of the list whose parsed set holds
\* the line's context, in list order
LineHandles(a, chunk, cur_line) ==
    LET strandness == CheckStrandnessParameter(a.strandness)
        Match(m)   == cur_line[4] \in ParseMcPattern(m)
        sel        == SelectSeq(McContexts(a.mc_contexts), Match)
        label      == IF strandness = "Split"
                      THEN (IF cur_line[3] = "+" THEN "Watson" ELSE "Crick")
                      ELSE strandness
    IN  [i \in 1..Len(sel) |-> Path(chunk, sel[i], label, OutSuffix(a.output_format))]

\* lines 331, 341: [h.write(line_func(cur_line)) for h in handles], line_func
\* being called once per handle on the same list
RECURSIVE WriteEach(_, _, _, _)
WriteEach(fs, a, handles, cur_line) ==
    IF handles = <<>> THEN fs
    ELSE WriteEach([fs EXCEPT ![Head(handles)] =
                        Append(@, LineFunc(a.output_format, LineCall(a, cur_line)))],
                   a, Tail(handles), LineCall(a, cur_line))

\* mutant of RouteLine: the coverage test of lines 327, 337 is left out
RouteLineNoCutoff(fs, a, chunk, cur_line) ==
    WriteEach(fs, a, LineHandles(a, chunk, cur_line), cur_line)

\* lines 326-333 / 336-343: one iteration of the routing loop
RouteLine(fs, a, chunk, cur_line) ==
    IF cur_line[6] > a.cov_cutoff
    THEN fs
    ELSE WriteEach(fs, a, LineHandles(a, chunk, cur_line), cur_line)

\* lines 348-371: one iteration of the closing loop, on st = [files, indexed]
PostContext(st, a, chunk, mc_context) ==
    LET strandness == CheckStrandnessParameter(a.strandness)
        out_suffix == OutSuffix(a.output_format)
        P(label)   == Path(chunk, mc_context, label, out_suffix)
        Tabix(ps)  == IF a.tabix THEN st.indexed \cup ps ELSE st.indexed
    IN  IF strandness = "Split"
        THEN [st EXCEPT !.indexed = Tabix({P("Watson"), P("Crick")})]
        ELSE IF strandness = "MergeTmp"
        THEN IF HasCG(mc_context) /\ IsAllcSuffix(out_suffix)
             THEN [files   |-> FsRemove(FsWrite(st.files, P("Merge"),
                                                MergeCgStrand(st.files[P("MergeTmp")])),
                                        P("MergeTmp")),
                   indexed |-> Tabix({P("Merge")})]
             ELSE [files   |-> FsRemove(FsWrite(st.files, P("Both"),
                                                st.files[P("MergeTmp")]),
                                        P("MergeTmp")),
                   indexed |-> Tabix({P("Both")})]
        ELSE [st EXCEPT !.indexed = Tabix({P(strandness)})]

\* lines 278, 283, 295-298: output_path_collect, key -> path
OutputPathCollect(a, chunk) ==
    LET strandness == CheckStrandnessParameter(a.strandness)
        out_suffix == OutSuffix(a.output_format)
        mcs        == McContexts(a.mc_contexts)
        labels     == IF strandness = "Split" THEN {"Watson", "Crick"}
                      ELSE IF strandness = "MergeTmp" THEN {"Merge"}
                      ELSE {strandness}
        keys       == {<<mcs[i], l, out_suffix>> : i \in 1..Len(mcs), l \in labels}
    IN  [k \in keys |-> Path(chunk, k[1], k[2], k[3])]

\* lines 323-343 as a function: the routing loop over lines
RECURSIVE RouteFold(_, _, _, _, _)
RouteFold(fs, a, chunk, lines, k) ==
    IF k > Len(lines) THEN fs
    ELSE RouteFold(RouteLine(fs, a, chunk, lines[k]), a, chunk, lines, k + 1)

\* lines 347-371 as a function: the closing loop over the mc_contexts
RECURSIVE PostFold(_, _, _, _, _)
PostFold(st, a, chunk, mcs, k) ==
    IF k > Len(mcs) THEN st
    ELSE PostFold(PostContext(st, a, chunk, mcs[k]), a, chunk, mcs, k + 1)

\* lines 261-374 as a function: an un-parallelized call on the lines of its
\* region, from file system fs and index set idx:
\* [files, indexed, ret] when it returns
ExtractAllc(fs, idx, a, chunk, lines) ==
    LET routed == RouteFold(OpenHandles(fs, a, chunk), a, chunk, lines, 1)
        st     == PostFold([files |-> routed, indexed |-> idx], a, chunk,
                           McContexts(a.mc_contexts), 1)
    IN  [files |-> st.files, indexed |-> st.indexed, ret |-> OutputPathCollect(a, chunk)]

\* arguments of the modelled calls
McContextArgs == {<<"CGN">>, <<"cgn">>, <<"CHN", "CAN">>, <<"CGN", "CHN", "CGN">>}
StrandnessArgs == {"both", "merge", "split"}
OutputFormatArgs == {"allc", "bed5"}
\* 9999 is the default of cov_cutoff (line 207)
CovCutoffArgs == {1, 9999}

\* tokens that _check_strandness_parameter and _check_out_format_parameter
\* do not know
BadStrandness == "forward"
BadOutputFormat == "bed"

\* lines 266-267: neither check raises ValueError
ValidArgs(a) ==
    /\ CheckStrandnessParameter(a.strandness) # "ValueError"
    /\ OutSuffix(a.output_format) # "ValueError"

\* arguments of the modelled un-parallelized calls: every valid combination
\* without chrom_size_path; the same with binarize at the default cutoff;
\* calls with cpu 2 that have a region or no chrom_size_path; and calls with
\* an unknown token, with and without chrom_size_path
ExtractArgs ==
    [mc_contexts : McContextArgs, strandness : StrandnessArgs,
     output_format : OutputFormatArgs, cov_cutoff : CovCutoffArgs,
     tabix : {TRUE}, cpu : {1}, chrom_size_path : {FALSE}, region : {FALSE},
     binarize : {FALSE}]
    \cup
    [mc_contexts : McContextArgs, strandness : StrandnessArgs,
     output_format : OutputFormatArgs, cov_cutoff : {9999},
     tabix : {TRUE}, cpu : {1}, chrom_size_path : {FALSE}, region : {FALSE},
     binarize : {TRUE}]
    \cup
    {a \in [mc_contexts : {<<"CGN">>}, strandness : {"both"},
            output_format : {"allc"}, cov_cutoff : {9999},
            tabix : BOOLEAN, cpu : {2}, chrom_size_path : BOOLEAN, region : BOOLEAN,
            binarize : {FALSE}] : ~ IsParallel(a)}
    \cup
    {a \in [mc_contexts : {<<"CGN">>}, strandness : StrandnessArgs \cup {BadStrandness},
            output_format : OutputFormatArgs \cup {BadOutputFormat},
            cov_cutoff : {9999}, tabix : {TRUE}, cpu : {1},
            chrom_size_path : BOOLEAN, region : {FALSE},
            binarize : {FALSE}] : ~ ValidArgs(a)}

\* the input lines of an un-parallelized extraction: one chromosome
ExtractLines ==
    {<<1, p, s, c>> \o t : p \in 1..MaxPos, s \in Strands, c \in Contexts, t \in CountFields}

\* the empty file system and the empty dict
NoFiles == [q \in {} |-> <<>>]

---------------------------------------------------------------------------
(* _extract_allc_parallel: regions, chunk tasks, ordered merge *)

\* the genome of a parallel extraction: two chromosomes of two positions
ParChroms == {1, 2}
ParPositions == {1, 2}

\* the input lines of a parallel extraction
ParallelLines ==
    {<<c, p, s, "CGA", 1, 2, "1">> : c \in ParChroms, p \in ParPositions, s \in Strands}

\* place of a line in the genome, chromosome after chromosome
GenomePos(line) == (line[1] - 1) * Cardinality(ParPositions) + line[2]
GenomeLen == Cardinality(ParChroms) * Cardinality(ParPositions)

\* the elements of a set of integers in ascending order
RECURSIVE Ascending(_)
Ascending(S) ==
    IF S = {} THEN <<>>
    ELSE LET m == CHOOSE x \in S : \A y \in S : x <= y
         IN  <<m>> \o Ascending(S \ {m})

\* utilities.genome_region_chunks: the contiguous, non-overlapping regions,
\* in ascending order, that the cuts split the genome into; a region is
\* <<first, last>> place of the genome
RegionsOf(cuts) ==
    LET ends == Ascending(cuts \cup {GenomeLen})
    IN  [k \in 1..Len(ends) |-> <<IF k = 1 THEN 1 ELSE ends[k - 1] + 1, ends[k]>>]

\* every split of the genome into at most MaxChunks regions
RegionLists ==
    {RegionsOf(cuts) : cuts \in {c \in SUBSET (1..(GenomeLen - 1)) :
                                    Cardinality(c) < MaxChunks}}

\* open_allc(allc_path, region=region): the lines of the region, in order
RegionLines(lines, region) ==
    LET In(line) == region[1] <= GenomePos(line) /\ GenomePos(line) <= region[2]
    IN  SelectSeq(lines, In)

\* lines 308-309 and 52: the strandness a chunk task is called with
\* ('Both', 'Merge' or 'Split'), lower-cased by _check_strandness_parameter
TaskStrandness(strandness) ==
    CASE strandness = "MergeTmp" -> "merge"
      [] strandness = "Both" -> "both"
      [] strandness = "Split" -> "split"
      [] OTHER -> "valueerror"

\* mutant of TaskArgs: the chunk task is called with the region, cpu and tabix
\* of its parent
TaskArgsNested(a) ==
    [a EXCEPT !.mc_contexts = McContexts(a.mc_contexts),
              !.strandness = TaskStrandness(CheckStrandnessParameter(a.strandness)),
              !.binarize = FALSE]

\* lines 128-138: the arguments of a chunk task; binarize is not passed and
\* takes its default
TaskArgs(a) ==
    [a EXCEPT !.mc_contexts = McContexts(a.mc_contexts),
              !.strandness = TaskStrandness(CheckStrandnessParameter(a.strandness)),
              !.region = TRUE,
              !.cpu = 1,
              !.tabix = FALSE,
              !.binarize = FALSE]

\* the chunk ids of the submitted tasks (line 127: enumerate(regions))
ChunkIds == 0..(Len(regions) - 1)

\* the chunk ids whose task as_completed has yielded
Collected == {output_records[i][1] : i \in 1..Len(output_records)}

\* lines 148-154, 163-164: the rows [path, chunk_id] of total_output_df of
\* one group key, in the order of output_records
KeyRows(records, key) ==
    [i \in 1..Len(records) |-> <<records[i][2][key], records[i][1]>>]

\* mutant of SortValues: the rows stay in the order the tasks completed
SortValuesNone(rows) == rows

\* mutant of SortValues: the rows are sorted by descending chunk_id
RECURSIVE SortValuesDescending(_)
SortValuesDescending(rows) ==
    IF rows = <<>> THEN <<>>
    ELSE LET m == CHOOSE i \in 1..Len(rows) :
                     \A j \in 1..Len(rows) : rows[i][2] >= rows[j][2]
         IN  <<rows[m]>> \o
             SortValuesDescending(SubSeq(rows, 1, m - 1) \o SubSeq(rows, m + 1, Len(rows)))

\* line 165: sub_df['chunk_id'].astype(int).sort_values().index
RECURSIVE SortValues(_)
SortValues(rows) ==
    IF rows = <<>> THEN <<>>
    ELSE LET m == CHOOSE i \in 1..Len(rows) :
                     \A j \in 1..Len(rows) : rows[i][2] <= rows[j][2]
         IN  <<rows[m]>> \o
             SortValues(SubSeq(rows, 1, m - 1) \o SubSeq(rows, m + 1, Len(rows)))

\* lines 165-166: ordered_file_list of one group key
OrderedFileList(records, key) ==
    LET sorted == SortValues(KeyRows(records, key))
    IN  [i \in 1..Len(sorted) |-> sorted[i][1]]

\* mutant of RealFilePath: the path of the file of chunk 0
RealFilePathChunk(key) == <<0, key[1], key[2], key[3]>>

\* line 167: real_file_path of one group key
RealFilePath(key) == Path(NoChunk, key[1], key[2], key[3])

\* line 103: output_path + 'tmp'
TmpPath(output_path) == Append(output_path, "tmp")

\* lines 104-107: the loop of _merge_gz_files on st = [files, content, ok];
\* reading a file that does not exist raises
RECURSIVE MergeGzLoop(_, _, _)
MergeGzLoop(st, file_list, k) ==
    IF k > Len(file_list) \/ ~ st.ok THEN st
    ELSE IF file_list[k] \notin DOMAIN st.files
    THEN [st EXCEPT !.ok = FALSE]
    ELSE MergeGzLoop([files   |-> FsRemove(st.files, file_list[k]),
                      content |-> st.content \o st.files[file_list[k]],
                      ok      |-> TRUE], file_list, k + 1)

\* lines 99-110: _merge_gz_files; [files, ok], ok FALSE when it raised
MergeGzFiles(fs, file_list, output_path) ==
    LET st == MergeGzLoop([files |-> fs, content |-> <<>>, ok |-> TRUE], file_list, 1)
    IN  IF st.ok
        THEN [files |-> FsWrite(st.files, output_path, st.content), ok |-> TRUE]
        ELSE [files |-> FsWrite(st.files, TmpPath(output_path), st.content),
              ok    |-> FALSE]

\* lines 108-109: bgzip or mv exits non-zero and run(..., check=True)
\* raises; the chunk files are gone and the content stays at the tmp path
MergeGzRaise(fs, file_list, output_path) ==
    LET st == MergeGzLoop([files |-> fs, content |-> <<>>, ok |-> TRUE], file_list, 1)
    IN  [files |-> FsWrite(st.files, TmpPath(output_path), st.content), ok |-> FALSE]

\* where a chunk task raises: "route" when the routing loop has ended, at
\* the close of the handles (line 345) or the first step of the closing loop
\* (lines 360, 365)
FailPoints == {"route"}

\* the files a chunk task that raises at point leaves behind
ChunkPartial(fs, a, chunk, lines, point) ==
    IF point = "open"
    THEN OpenHandles(fs, a, chunk)
    ELSE RouteFold(OpenHandles(fs, a, chunk), a, chunk, lines, 1)

\* the chunk ids whose task has ended, collected or not
Ended == Collected \cup DOMAIN task_end

\* lines 171-172: need_tabix
NeedTabix ==
    {RealFilePath(key) : key \in {k \in DOMAIN merge_lists :
                                     args.tabix /\ IsAllcSuffix(k[3])}}

\* no extract_allc call is modelled
ExtractIdle ==
    /\ args = [mc_contexts |-> <<>>, strandness |-> "both", output_format |-> "allc",
               cov_cutoff |-> 9999, tabix |-> TRUE, cpu |-> 1,
               chrom_size_path |-> FALSE, region |-> FALSE, binarize |-> FALSE]
    /\ chrom_read = FALSE
    /\ allc = <<>>
    /\ files = NoFiles
    /\ indexed = {}
    /\ read_idx = 0
    /\ post_idx = 0
    /\ ret = NoFiles
    /\ pc = "idle"

\* no _extract_allc_parallel call is modelled
ParallelIdle ==
    /\ regions = <<>>
    /\ output_records = <<>>
    /\ merge_lists = NoFiles
    /\ merge_done = NoFiles
    /\ task_end = NoFiles

\* only the extraction pipeline is modelled
RestIdle ==
    /\ gz_init = <<>>
    /\ gz_files = <<>> /\ gz_list = <<>> /\ gz_k = 0 /\ gz_tmp = <<>> /\ gz_pc = "idle"
    /\ bed = <<>> /\ cnt_allc = <<>> /\ cnt_idx = 0 /\ cnt_records = <<>> /\ cnt_pc = "idle"
    /\ cnt_p = "None"
    /\ cells = 0 /\ global_path = FALSE /\ cutoff_ok = TRUE /\ hdf_exists = <<>>
    /\ gen_idy = 0 /\ submitted = {} /\ returned = {} /\ gen_pc = "idle"
    /\ ds_continuity = <<>> /\ ds_offset = <<>> /\ ds_has_pos = <<>>
    /\ ds_last = <<>> /\ ds_result = "idle"
    /\ region_df = <<>> /\ pos_idx = <<>> /\ pos_i = 0 /\ region_row = 0
    /\ pos_list = <<>> /\ filter_pc = "idle"
    /\ mc_type = <<>> /\ mc_pos_cache = <<>> /\ mc_pos_bool_cache = <<>>
    /\ cb_prev = <<>> /\ cb_last = <<>> /\ cb_ret = <<>>

\* no _merge_cg_strand call is modelled on its own
MergeIdle ==
    /\ in_allc = <<>>
    /\ line_idx = 0
    /\ prev_line = None
    /\ cur_chrom = NoChrom
    /\ out_allc = <<>>
    /\ merge_pc = "idle"

MergeInit ==
    /\ in_allc \in SortedStreams(MergeLines, MaxLen)
    /\ line_idx = 0
    /\ prev_line = None
    /\ cur_chrom = NoChrom
    /\ out_allc = <<>>
    /\ merge_pc = "loop"
    /\ ExtractIdle
    /\ ParallelIdle
    /\ RestIdle

\* lines 22-47: the loop body on the next line of in_path
MergeLine ==
    /\ merge_pc = "loop"
    /\ line_idx < Len(in_allc)
    /\ LET st == MergeStep([prev_line |-> prev_line, cur_chrom |-> cur_chrom,
                            out |-> out_allc], in_allc[line_idx + 1])
       IN  /\ prev_line' = st.prev_line
           /\ cur_chrom' = st.cur_chrom
           /\ out_allc' = st.out
    /\ line_idx' = line_idx + 1
    /\ UNCHANGED <<in_allc, merge_pc, extractVars, parallelVars, restVars>>

\* line 48: the input is exhausted, the files are closed and the call returns
MergeReturn ==
    /\ merge_pc = "loop"
    /\ line_idx = Len(in_allc)
    /\ merge_pc' = "returned"
    /\ UNCHANGED <<in_allc, line_idx, prev_line, cur_chrom, out_allc, extractVars, parallelVars, restVars>>

MergeNext == MergeLine \/ MergeReturn

SpecMerge == MergeInit /\ [][MergeNext]_vars

---------------------------------------------------------------------------
(* extract_allc, un-parallelized, as a state machine *)

ExtractInit ==
    /\ args \in ExtractArgs
    /\ chrom_read = FALSE
    /\ allc \in SortedStreams(ExtractLines, ExtLen)
    /\ files = NoFiles
    /\ indexed = {}
    /\ read_idx = 0
    /\ post_idx = 0
    /\ ret = NoFiles
    /\ pc = "start"
    /\ MergeIdle
    /\ ParallelIdle
    /\ RestIdle

\* lines 254-267: region is None, so chrom_size_path is read when it is
\* given; then a parameter check raises ValueError
ExtractRaise ==
    /\ pc = "start"
    /\ ~ ValidArgs(args)
    /\ chrom_read' = ReadsChromSize(args)
    /\ pc' = "raised"
    /\ UNCHANGED <<args, allc, files, indexed, read_idx, post_idx, ret, mergeVars, parallelVars, restVars>>

\* lines 250-306: the parameters are prepared, the handles are opened and
\* the call is not parallel
ExtractOpen ==
    /\ pc = "start"
    /\ ValidArgs(args)
    /\ ~ IsParallel(args)
    /\ chrom_read' = ReadsChromSize(args)
    /\ files' = OpenHandles(files, args, NoChunk)
    /\ pc' = "route"
    /\ UNCHANGED <<args, allc, indexed, read_idx, post_idx, ret, mergeVars, parallelVars, restVars>>

\* lines 325-333 / 335-343: the routing loop on the next input line
ExtractLine ==
    /\ pc = "route"
    /\ read_idx < Len(allc)
    /\ files' = RouteLine(files, args, NoChunk, allc[read_idx + 1])
    /\ read_idx' = read_idx + 1
    /\ UNCHANGED <<args, chrom_read, allc, indexed, post_idx, ret, pc, mergeVars, parallelVars, restVars>>

\* lines 344-345: the input is exhausted and the handles are closed
ExtractClose ==
    /\ pc = "route"
    /\ read_idx = Len(allc)
    /\ pc' = "post"
    /\ UNCHANGED <<args, chrom_read, allc, files, indexed, read_idx, post_idx, ret, mergeVars, parallelVars, restVars>>

\* lines 347-371: the closing loop on the next mc_context
ExtractPost ==
    /\ pc = "post"
    /\ post_idx < Len(McContexts(args.mc_contexts))
    /\ LET st == PostContext([files |-> files, indexed |-> indexed], args, NoChunk,
                             McContexts(args.mc_contexts)[post_idx + 1])
       IN  /\ files' = st.files
           /\ indexed' = st.indexed
    /\ post_idx' = post_idx + 1
    /\ UNCHANGED <<args, chrom_read, allc, read_idx, ret, pc, mergeVars, parallelVars, restVars>>

\* line 374: the call returns output_path_collect
ExtractReturn ==
    /\ pc = "post"
    /\ post_idx = Len(McContexts(args.mc_contexts))
    /\ ret' = OutputPathCollect(args, NoChunk)
    /\ pc' = "done"
    /\ UNCHANGED <<args, chrom_read, allc, files, indexed, read_idx, post_idx, mergeVars, parallelVars, restVars>>

ExtractNext ==
    ExtractRaise \/ ExtractOpen \/ ExtractLine \/ ExtractClose \/ ExtractPost \/ ExtractReturn

SpecExtract == ExtractInit /\ [][ExtractNext]_vars

---------------------------------------------------------------------------
(* extract_allc with cpu > 1 as a state machine *)

\* arguments of the modelled parallel calls: one CG pattern in every strand
\* mode, a CG and a non-CG pattern in Merge mode, and binarize in Both mode
ParallelArgs ==
    [mc_contexts : {<<"CGN">>}, strandness : StrandnessArgs,
     output_format : {"allc"}, cov_cutoff : {9999}, tabix : {TRUE}, cpu : {2},
     chrom_size_path : {TRUE}, region : {FALSE}, binarize : {FALSE}]
    \cup
    [mc_contexts : {<<"CGN", "CHN">>}, strandness : {"merge"},
     output_format : {"allc"}, cov_cutoff : {9999}, tabix : {TRUE}, cpu : {2},
     chrom_size_path : {TRUE}, region : {FALSE}, binarize : {FALSE}]
    \cup
    [mc_contexts : {<<"CGN">>}, strandness : {"both"},
     output_format : {"allc"}, cov_cutoff : {9999}, tabix : {TRUE}, cpu : {2},
     chrom_size_path : {TRUE}, region : {FALSE}, binarize : {TRUE}]

\* arguments of calls that lines 253-259 leave un-parallelized: a region is
\* given, or no chromosome-size table, or cpu is 1
SerialArgs ==
    {a \in [mc_contexts : {<<"CGN">>}, strandness : {"both"},
            output_format : {"allc"}, cov_cutoff : {9999}, tabix : {TRUE},
            cpu : {1, 2}, chrom_size_path : BOOLEAN, region : BOOLEAN,
            binarize : {FALSE}] : ~ IsParallel(a)}

ParallelInit ==
    /\ args \in ParallelArgs
    /\ chrom_read = FALSE
    /\ allc \in SortedStreams(ParallelLines, GenomeLen)
    /\ regions \in RegionLists
    /\ files = NoFiles
    /\ indexed = {}
    /\ read_idx = 0
    /\ post_idx = 0
    /\ ret = NoFiles
    /\ pc = "start"
    /\ output_records = <<>>
    /\ merge_lists = NoFiles
    /\ merge_done = NoFiles
    /\ task_end = NoFiles
    /\ MergeIdle
    /\ RestIdle

\* lines 250-319 and 121-139: region is None and cpu > 1, so the call is
\* parallel; the handles are opened all the same, then the chunk tasks are
\* submitted
ParallelOpen ==
    /\ pc = "start"
    /\ IsParallel(args)
    /\ ValidArgs(args)
    /\ chrom_read' = TRUE
    /\ files' = OpenHandles(files, args, NoChunk)
    /\ pc' = "chunks"
    /\ UNCHANGED <<args, allc, indexed, read_idx, post_idx, ret, regions,
                   output_records, merge_lists, merge_done, task_end, mergeVars, restVars>>

\* lines 253-259 and 261-374: parallel stays False, so the call does the
\* whole extraction itself and returns
SerialCall ==
    /\ pc = "start"
    /\ ~ IsParallel(args)
    /\ ValidArgs(args)
    /\ chrom_read' = ReadsChromSize(args)
    /\ LET r == ExtractAllc(files, indexed, args, NoChunk, allc)
       IN  /\ files' = r.files
           /\ indexed' = r.indexed
           /\ ret' = r.ret
    /\ pc' = "serial_done"
    /\ UNCHANGED <<args, allc, read_idx, post_idx, regions, output_records,
                   merge_lists, merge_done, task_end, mergeVars, restVars>>

\* lines 128-145: the task of chunk_id runs extract_allc on its region and
\* as_completed yields it
ChunkDone(chunk_id) ==
    /\ pc = "chunks"
    /\ chunk_id \in ChunkIds \ Ended
    /\ LET r == ExtractAllc(files, indexed, TaskArgs(args), chunk_id,
                            RegionLines(allc, regions[chunk_id + 1]))
       IN  /\ files' = r.files
           /\ indexed' = r.indexed
           /\ output_records' = Append(output_records, <<chunk_id, r.ret>>)
    /\ UNCHANGED <<args, chrom_read, allc, read_idx, post_idx, ret, pc, regions,
                   merge_lists, merge_done, task_end, mergeVars, restVars>>

\* lines 142-143: the task of chunk_id raises at point, as_completed yields
\* it and future.result() raises in the parent, inside the with block of
\* line 126
ChunkRaise(chunk_id, point) ==
    /\ pc = "chunks"
    /\ chunk_id \in ChunkIds \ Ended
    /\ files' = ChunkPartial(files, TaskArgs(args), chunk_id,
                             RegionLines(allc, regions[chunk_id + 1]), point)
    /\ task_end' = [c \in DOMAIN task_end \cup {chunk_id} |->
                        IF c = chunk_id THEN "raised" ELSE task_end[c]]
    /\ pc' = "chunk_error"
    /\ UNCHANGED <<args, chrom_read, allc, indexed, read_idx, post_idx, ret, regions,
                   output_records, merge_lists, merge_done, mergeVars, restVars>>

\* line 126: the exception leaves the with block, whose exit waits for the
\* submitted tasks (shutdown(wait=True)); a task that was not collected
\* ends, finished or raised at a point
ChunkDrain(chunk_id, outcome) ==
    /\ pc = "chunk_error"
    /\ chunk_id \in ChunkIds \ Ended
    /\ files' = IF outcome = "finished"
                THEN ExtractAllc(files, indexed, TaskArgs(args), chunk_id,
                                 RegionLines(allc, regions[chunk_id + 1])).files
                ELSE ChunkPartial(files, TaskArgs(args), chunk_id,
                                  RegionLines(allc, regions[chunk_id + 1]), outcome)
    /\ task_end' = [c \in DOMAIN task_end \cup {chunk_id} |->
                        IF c # chunk_id THEN task_end[c]
                        ELSE IF outcome = "finished" THEN "finished" ELSE "raised"]
    /\ UNCHANGED <<args, chrom_read, allc, indexed, read_idx, post_idx, ret, pc, regions,
                   output_records, merge_lists, merge_done, mergeVars, restVars>>

\* mutant of ParallelRaise: the exception does not wait for the other tasks
ParallelRaiseNoWait ==
    /\ pc = "chunk_error"
    /\ pc' = "failed"
    /\ UNCHANGED <<args, chrom_read, allc, files, indexed, read_idx, post_idx, ret, regions,
                   output_records, merge_lists, merge_done, task_end, mergeVars, restVars>>

\* line 126: every chunk task has ended and the exception reaches the
\* caller of extract_allc
ParallelRaise ==
    /\ pc = "chunk_error"
    /\ Ended = ChunkIds
    /\ pc' = "failed"
    /\ UNCHANGED <<args, chrom_read, allc, files, indexed, read_idx, post_idx, ret, regions,
                   output_records, merge_lists, merge_done, task_end, mergeVars, restVars>>

\* mutant of SubmitMerges: the merge tasks are submitted as soon as one
\* chunk task has been yielded
SubmitMergesEarly ==
    /\ pc = "chunks"
    /\ output_records # <<>>
    /\ merge_lists' = [key \in DOMAIN output_records[1][2] |->
                          OrderedFileList(output_records, key)]
    /\ pc' = "merge"
    /\ UNCHANGED <<args, chrom_read, allc, files, indexed, read_idx, post_idx, ret, regions,
                   output_records, merge_done, task_end, mergeVars, restVars>>

\* lines 147-176: every chunk task has been yielded; the paths are grouped
\* by key and one merge task per key is submitted
SubmitMerges ==
    /\ pc = "chunks"
    /\ Collected = ChunkIds
    /\ merge_lists' = [key \in DOMAIN output_records[1][2] |->
                          OrderedFileList(output_records, key)]
    /\ pc' = "merge"
    /\ UNCHANGED <<args, chrom_read, allc, files, indexed, read_idx, post_idx, ret, regions,
                   output_records, merge_done, task_end, mergeVars, restVars>>

\* lines 173-175: the merge task of one key runs _merge_gz_files
MergeTask(key) ==
    /\ pc = "merge"
    /\ key \in DOMAIN merge_lists \ DOMAIN merge_done
    /\ LET r == MergeGzFiles(files, merge_lists[key], RealFilePath(key))
       IN  /\ files' = r.files
           /\ merge_done' = [k \in DOMAIN merge_done \cup {key} |->
                                IF k = key THEN r.ok ELSE merge_done[k]]
    /\ UNCHANGED <<args, chrom_read, allc, indexed, read_idx, post_idx, ret, pc, regions,
                   output_records, merge_lists, task_end, mergeVars, restVars>>

\* lines 108-109: the merge task of one key raises after its loop
MergeTaskRaise(key) ==
    /\ pc = "merge"
    /\ key \in DOMAIN merge_lists \ DOMAIN merge_done
    /\ LET r == MergeGzRaise(files, merge_lists[key], RealFilePath(key))
       IN  /\ files' = r.files
           /\ merge_done' = [k \in DOMAIN merge_done \cup {key} |->
                                IF k = key THEN r.ok ELSE merge_done[k]]
    /\ UNCHANGED <<args, chrom_read, allc, indexed, read_idx, post_idx, ret, pc, regions,
                   output_records, merge_lists, task_end, mergeVars, restVars>>

\* mutant of MergeJoin: the index stage begins without waiting for the
\* merge tasks
MergeJoinNoWait ==
    /\ pc = "merge"
    /\ pc' = "tabix"
    /\ UNCHANGED <<args, chrom_read, allc, files, indexed, read_idx, post_idx, ret, regions,
                   output_records, merge_lists, merge_done, task_end, mergeVars, restVars>>

\* lines 177-178: every merge task has ended; future.result() raises what a
\* task raised, otherwise the index stage begins
MergeJoin ==
    /\ pc = "merge"
    /\ DOMAIN merge_done = DOMAIN merge_lists
    /\ pc' = IF \A k \in DOMAIN merge_done : merge_done[k] THEN "tabix" ELSE "failed"
    /\ UNCHANGED <<args, chrom_read, allc, files, indexed, read_idx, post_idx, ret, regions,
                   output_records, merge_lists, merge_done, task_end, mergeVars, restVars>>

\* lines 180-187: the index task of one final path runs tabix_allc
TabixTask(path) ==
    /\ pc = "tabix"
    /\ path \in NeedTabix \ indexed
    /\ indexed' = indexed \cup {path}
    /\ UNCHANGED <<args, chrom_read, allc, files, read_idx, post_idx, ret, pc, regions,
                   output_records, merge_lists, merge_done, task_end, mergeVars, restVars>>

\* line 189: every index task has ended and real_out_paths_dict is returned
ParallelReturn ==
    /\ pc = "tabix"
    /\ NeedTabix \subseteq indexed
    /\ ret' = [key \in DOMAIN merge_lists |-> RealFilePath(key)]
    /\ pc' = "done"
    /\ UNCHANGED <<args, chrom_read, allc, files, indexed, read_idx, post_idx, regions,
                   output_records, merge_lists, merge_done, task_end, mergeVars, restVars>>

ParallelNext ==
    \/ ParallelOpen
    \/ \E chunk_id \in ChunkIds, point \in FailPoints : ChunkRaise(chunk_id, point)
    \/ \E chunk_id \in ChunkIds : ChunkDone(chunk_id)
    \/ \E chunk_id \in ChunkIds, outcome \in FailPoints : ChunkDrain(chunk_id, outcome)
    \/ \E chunk_id \in ChunkIds : ChunkDrain(chunk_id, "finished")
    \/ ParallelRaise
    \/ SubmitMerges
    \/ \E key \in DOMAIN merge_lists : MergeTask(key)
    \/ \E key \in DOMAIN merge_lists : MergeTaskRaise(key)
    \/ MergeJoin
    \/ \E path \in NeedTabix : TabixTask(path)
    \/ ParallelReturn

SpecParallel == ParallelInit /\ [][ParallelNext]_vars

\* the inputs that hold a '+' line at every place of the genome
FairStreams ==
    {s \in SortedStreams(ParallelLines, GenomeLen) :
        /\ Len(s) = GenomeLen
        /\ \A i \in 1..Len(s) : s[i][3] = "+"}

\* every split of the genome into fewer regions than it has places
FairRegionLists ==
    {RegionsOf(cuts) : cuts \in {c \in SUBSET (1..(GenomeLen - 1)) :
                                    Cardinality(c) < GenomeLen - 1}}

\* a call of extract_allc, parallel or not; regions exist only in
\* _extract_allc_parallel (lines 122-124)
FairInit ==
    /\ args \in ParallelArgs \cup SerialArgs
    /\ chrom_read = FALSE
    /\ allc \in FairStreams
    /\ regions \in (IF IsParallel(args) THEN FairRegionLists ELSE {<<>>})
    /\ files = NoFiles
    /\ indexed = {}
    /\ read_idx = 0
    /\ post_idx = 0
    /\ ret = NoFiles
    /\ pc = "start"
    /\ output_records = <<>>
    /\ merge_lists = NoFiles
    /\ merge_done = NoFiles
    /\ task_end = NoFiles
    /\ MergeIdle
    /\ RestIdle

\* lines 253-259: the call is un-parallelized or takes the parallel path
FanOutNext == SerialCall \/ ParallelNext

\* the steps of a call other than a chunk task running to its return; a
\* chunk task can return exactly as long as it can raise, so some step of
\* FanOutNext is enabled if and only if one of these is
FairSteps ==
    \/ SerialCall
    \/ ParallelOpen
    \/ \E chunk_id \in ChunkIds, point \in FailPoints : ChunkRaise(chunk_id, point)
    \/ \E chunk_id \in ChunkIds, outcome \in FailPoints : ChunkDrain(chunk_id, outcome)
    \/ ParallelRaise
    \/ SubmitMerges
    \/ \E key \in DOMAIN merge_lists : MergeTask(key)
    \/ \E key \in DOMAIN merge_lists : MergeTaskRaise(key)
    \/ MergeJoin
    \/ \E path \in NeedTabix : TabixTask(path)
    \/ ParallelReturn

\* the executors run every task that was submitted to its end and the
\* parent goes on whenever what it waits for has ended: a call does not
\* stop while a step is possible
SpecParallelFair == FairInit /\ [][FanOutNext]_vars /\ WF_vars(FairSteps)

---------------------------------------------------------------------------
(* Claims about _merge_cg_strand, read on the returned call *)

MergeReturned == merge_pc = "returned"

\* indices of the output lines at (chrom c, position p)
OutAt(c, p) == {k \in 1..Len(out_allc) : out_allc[k][1] = c /\ out_allc[k][2] = p}

\* in_allc[i], in_allc[i+1] are a plus-strand line at p and a minus-strand
\* line at p+1 of the same chromosome
PlusMinusPairAt(i) ==
    /\ i \in 1..(Len(in_allc) - 1)
    /\ in_allc[i][1] = in_allc[i + 1][1]
    /\ in_allc[i][2] + 1 = in_allc[i + 1][2]
    /\ in_allc[i][3] = "+"
    /\ in_allc[i + 1][3] = "-"

\* C1: wherever a line (+, p, mc1, cov1) is immediately followed by
\* (-, p+1, mc2, cov2) on the same chromosome, the output of the returned
\* call holds exactly one line at p, with mc1+mc2, cov1+cov2 and last
\* field '1' (so no separate line for either input).
C1_PairMergedOnce ==
    MergeReturned =>
        \A i \in 1..(Len(in_allc) - 1) :
            PlusMinusPairAt(i) =>
                /\ Cardinality(OutAt(in_allc[i][1], in_allc[i][2])) = 1
                /\ \A k \in OutAt(in_allc[i][1], in_allc[i][2]) :
                       /\ out_allc[k][5] = in_allc[i][5] + in_allc[i + 1][5]
                       /\ out_allc[k][6] = in_allc[i][6] + in_allc[i + 1][6]
                       /\ out_allc[k][7] = "1"

\* in_allc[i] is a minus-strand line with no plus-strand line one position
\* before it, on the same chromosome, immediately preceding it
LoneMinusAt(i) ==
    /\ i \in 1..Len(in_allc)
    /\ in_allc[i][3] = "-"
    /\ ~ PlusMinusPairAt(i - 1)

\* C2: every lone minus-strand line (chrom, q, '-', ...) appears in the
\* output of the returned call exactly once as (chrom, q-1, '+', ...) with
\* context, mc, cov and last field unchanged.
C2_LoneMinusNormalized ==
    MergeReturned =>
        \A i \in 1..Len(in_allc) :
            LoneMinusAt(i) =>
                Cardinality({k \in 1..Len(out_allc) :
                    out_allc[k] = <<in_allc[i][1], in_allc[i][2] - 1, "+">>
                                    \o SubSeq(in_allc[i], 4, 7)}) = 1

\* C3: a line still held as prev_line when the input is exhausted has been
\* written, as the last line of the output, when the call has returned.
C3_HeldLineFlushed ==
    (MergeReturned /\ prev_line # None) =>
        /\ Len(out_allc) > 0
        /\ out_allc[Len(out_allc)] = UnpairedLine(prev_line)

\* C4: every line the reducer writes has strand '+'.
C4_AllPlusStrand == \A k \in 1..Len(out_allc) : out_allc[k][3] = "+"

\* C5: a step of the reducer collapses the held line and the current line
\* (writes one line and holds nothing afterwards) only when the held line is
\* the plus-strand one and the current line the minus-strand one.
C5_MergeOnlyPlusThenMinus ==
    [][(prev_line # None /\ prev_line' = None /\ Len(out_allc') = Len(out_allc) + 1)
          => (prev_line[3] = "+" /\ in_allc[line_idx + 1][3] = "-")]_vars

---------------------------------------------------------------------------
(* Claims about the router of extract_allc *)

\* number of lines of the file at path that carry the (chrom, pos) of line
Copies(path, line) ==
    Cardinality({k \in 1..Len(files[path]) :
                    files[path][k][1] = line[1] /\ files[path][k][2] = line[2]})

\* C6: an input line with cov > cov_cutoff is written to no file of the
\* router (every file but the reducer's output, labelled Merge), in every
\* strand mode and output format, whether or not its context is requested.
C6_OverCoveredNeverWritten ==
    \A i \in 1..Len(allc) :
        allc[i][6] > args.cov_cutoff =>
            \A path \in DOMAIN files :
                path[3] # "Merge" => Copies(path, allc[i]) = 0

\* the call has returned and its input held an over-covered line whose
\* context is requested, beside a line that was written
C6_Witness ==
    /\ pc = "done"
    /\ \E i \in 1..Len(allc) :
          /\ allc[i][6] > args.cov_cutoff
          /\ LineHandles(args, NoChunk, allc[i]) # <<>>
    /\ \E path \in DOMAIN files : files[path] # <<>>

\* C7: while the routing loop runs, every consumed line that passes the
\* cutoff is held exactly once by the file of each requested pattern (and, in
\* Split mode, strand) whose parsed set holds its context, and not at all by
\* the other files, also when a pattern is listed more than once.
C7_RouterFanOut ==
    pc = "route" =>
        \A i \in 1..read_idx :
            allc[i][6] <= args.cov_cutoff =>
                \A j \in 1..Len(args.mc_contexts) :
                    \A l \in HandleLabels(CheckStrandnessParameter(args.strandness)) :
                        LET m    == args.mc_contexts[j]
                            path == Path(NoChunk, m, l, OutSuffix(args.output_format))
                            dest == /\ allc[i][4] \in ParseMcPattern(m)
                                    /\ l = "Watson" => allc[i][3] = "+"
                                    /\ l = "Crick" => allc[i][3] = "-"
                        IN  Copies(path, allc[i]) = IF dest THEN 1 ELSE 0

\* a consumed line matches two different requested patterns
C7_Witness ==
    /\ pc = "route"
    /\ read_idx >= 1
    /\ allc[read_idx][6] <= args.cov_cutoff
    /\ \E j1, j2 \in 1..Len(args.mc_contexts) :
          /\ args.mc_contexts[j1] # args.mc_contexts[j2]
          /\ allc[read_idx][4] \in ParseMcPattern(args.mc_contexts[j1])
          /\ allc[read_idx][4] \in ParseMcPattern(args.mc_contexts[j2])

---------------------------------------------------------------------------
(* Claims about the parallel extraction *)

\* lines is non-decreasing in (chrom, pos)
NonDecreasing(lines) ==
    \A k \in 1..(Len(lines) - 1) : ~ Before(lines[k + 1], lines[k])

\* C8: every file is non-decreasing in (chrom, pos) at every moment: the
\* files of the chunk tasks, each the output of an un-parallelized
\* extract_allc on its region (the whole genome when there is one region),
\* and the final files the merge tasks write, in Both, Split and Merge mode.
C8_OutputGroupsSorted ==
    \A path \in DOMAIN files : NonDecreasing(files[path])

\* a Merge run that has returned, whose chunk tasks completed out of order
\* and whose final file holds lines of two chunks
C8_Witness ==
    /\ pc = "done"
    /\ args.strandness = "merge"
    /\ regions = <<<<1, 2>>, <<3, 4>>>>
    /\ output_records[1][1] = 1
    /\ \E key \in DOMAIN ret :
          /\ Len(files[ret[key]]) = 2
          /\ files[ret[key]][1][1] = 1
          /\ files[ret[key]][2][1] = 2

\* what the un-parallelized call (cpu = 1) returns on the same input
SinglePass == ExtractAllc(NoFiles, {}, [args EXCEPT !.cpu = 1], NoChunk, allc)

\* C9: when the parallel call has returned, the final file of every output
\* group holds exactly the lines that a single un-parallelized pass over the
\* same input writes to the group's file.
C9_ChunkedEqualsSinglePass ==
    pc = "done" =>
        \A key \in DOMAIN ret :
            files[ret[key]] = SinglePass.files[SinglePass.ret[key]]

\* the file of group key that the task of chunk_id writes
ChunkFile(chunk_id, key) ==
    LET r == ExtractAllc(NoFiles, {}, TaskArgs(args), chunk_id,
                         RegionLines(allc, regions[chunk_id + 1]))
    IN  r.files[r.ret[key]]

\* the files of group key of chunks 0 .. n-1, concatenated
RECURSIVE ChunkConcat(_, _)
ChunkConcat(key, n) ==
    IF n = 0 THEN <<>>
    ELSE ChunkConcat(key, n - 1) \o ChunkFile(n - 1, key)

\* C10: whatever the order in which the chunk tasks completed, the file list
\* handed to the merge task of a key holds, at index i, the file of chunk
\* i - 1 for that key, each chunk once; and the final file of a merge task
\* that returned is the concatenation of the files of chunk 0, 1, ..., N-1.
C10_MergeListAscending ==
    \A key \in DOMAIN merge_lists :
        /\ Len(merge_lists[key]) = Len(regions)
        /\ \A i \in 1..Len(merge_lists[key]) :
               merge_lists[key][i] = Path(i - 1, key[1], key[2], key[3])
        /\ (key \in DOMAIN merge_done /\ merge_done[key]) =>
               files[RealFilePath(key)] = ChunkConcat(key, Len(regions))

\* three chunk tasks that completed in the order 2, 0, 1, merged into a
\* final file that holds lines
C10_Witness ==
    /\ Len(regions) = 3
    /\ Len(output_records) = 3
    /\ output_records[1][1] = 2
    /\ output_records[2][1] = 0
    /\ \E key \in DOMAIN merge_done :
          merge_done[key] /\ Len(files[RealFilePath(key)]) >= 2

\* C11: a merge task is submitted or has run only when every chunk task has
\* completed and its path mapping has been collected into output_records.
C11_ChunkToMergeBarrier ==
    (DOMAIN merge_lists # {} \/ DOMAIN merge_done # {}) =>
        /\ Collected = ChunkIds
        /\ Len(output_records) = Len(regions)
        /\ DOMAIN task_end = {}

\* three chunk tasks have been collected and a merge task has run
C11_Witness ==
    /\ pc = "merge"
    /\ Len(regions) = 3
    /\ \E key \in DOMAIN merge_done : merge_done[key]

\* C12: the index stage has begun, or a final path has been indexed, only
\* when every merge task has returned; an indexed final path is the path of
\* a key whose merge task returned, the file is in place and no tmp file of
\* it is left.
C12_MergeToIndexBarrier ==
    /\ (pc \in {"tabix", "done"} \/ indexed # {}) =>
           /\ DOMAIN merge_done = DOMAIN merge_lists
           /\ \A key \in DOMAIN merge_done : merge_done[key]
    /\ \A path \in indexed :
           /\ \E key \in DOMAIN merge_done : merge_done[key] /\ path = RealFilePath(key)
           /\ path \in DOMAIN files
           /\ TmpPath(path) \notin DOMAIN files

\* the index task of a final file merged from three chunks has run
C12_Witness ==
    /\ pc = "tabix"
    /\ Len(regions) = 3
    /\ \E path \in indexed : Len(files[path]) >= 2

\* C13: once a chunk task has raised, no merge task is ever submitted, no
\* index task runs and nothing is returned; the failure reaches the caller
\* only when every other chunk task has ended.
C13_ChunkFailureFatal ==
    (\E c \in DOMAIN task_end : task_end[c] = "raised") =>
        /\ pc \in {"chunk_error", "failed"}
        /\ merge_lists = NoFiles
        /\ merge_done = NoFiles
        /\ indexed = {}
        /\ ret = NoFiles
        /\ (pc = "failed" => Ended = ChunkIds)

\* of three chunk tasks one was collected, one raised and one finished while
\* the exception was waiting; the failure has reached the caller
C13_Witness ==
    /\ pc = "failed"
    /\ Len(regions) = 3
    /\ Len(output_records) = 1
    /\ \E c \in DOMAIN task_end : task_end[c] = "raised"
    /\ \E c \in DOMAIN task_end : task_end[c] = "finished"

\* the output groups a failed parallel run did not finish: every group when
\* a chunk task raised, the groups whose merge task raised otherwise
AffectedKeys ==
    IF DOMAIN task_end # {}
    THEN DOMAIN OutputPathCollect(args, NoChunk)
    ELSE {key \in DOMAIN merge_done : ~ merge_done[key]}

\* C14: when the failure of a chunk task or of a merge task has reached the
\* caller, no file exists at the final path of an affected output group.
C14_NoFinalFileAfterFailure ==
    pc = "failed" =>
        \A key \in AffectedKeys : RealFilePath(key) \notin DOMAIN files

\* the paths the parent call holds open for writing: the handles of lines
\* 274-302, which the parallel path never closes
ParentPaths ==
    IF pc = "start" THEN {} ELSE HandlePaths(args, NoChunk)

\* the paths the task of chunk_id opens or writes: its handles and the
\* files its closing loop produces
ChunkPaths(chunk_id) ==
    LET opc == OutputPathCollect(TaskArgs(args), chunk_id)
    IN  HandlePaths(TaskArgs(args), chunk_id)
            \cup {opc[key] : key \in DOMAIN opc}
            \cup {Path(chunk_id, key[1], "Both", key[3]) : key \in DOMAIN opc}

\* the output-group keys of the call
GroupKeys == DOMAIN OutputPathCollect(args, NoChunk)

\* the paths the merge task of key writes
MergePaths(key) == {RealFilePath(key), TmpPath(RealFilePath(key))}

\* C15: in a parallel run the paths of the writers are pairwise disjoint:
\* two chunk tasks share no path, a chunk task writes distinct paths for
\* distinct keys, two merge tasks share no path, and neither the parent call
\* nor a chunk task opens a path of a merge task, the final path of the
\* group included.
C15_PathPartitioning ==
    /\ \A c1, c2 \in ChunkIds : c1 # c2 => ChunkPaths(c1) \cap ChunkPaths(c2) = {}
    /\ \A c \in ChunkIds : \A k1, k2 \in GroupKeys :
           k1 # k2 => OutputPathCollect(TaskArgs(args), c)[k1]
                          # OutputPathCollect(TaskArgs(args), c)[k2]
    /\ \A k1, k2 \in GroupKeys : k1 # k2 => MergePaths(k1) \cap MergePaths(k2) = {}
    /\ \A key \in GroupKeys :
           /\ \A c \in ChunkIds : MergePaths(key) \cap ChunkPaths(c) = {}
           /\ MergePaths(key) \cap ParentPaths = {}

---------------------------------------------------------------------------
(* Claims about the un-parallelized extract_allc: errors, routing, return *)

\* C16: when a call with an unknown strandness or output_format token has
\* raised ValueError, no chromosome-size file and no input line has been
\* read, no handle has been opened and no file exists.
C16_EagerConfigurationError ==
    pc = "raised" =>
        /\ ~ chrom_read
        /\ read_idx = 0
        /\ files = NoFiles
        /\ indexed = {}

\* the context of line is in the expanded set of a requested pattern
Routable(line) ==
    \E i \in 1..Len(args.mc_contexts) : line[4] \in ParseMcPattern(args.mc_contexts[i])

\* C17: a call with valid arguments never raises, and while the routing
\* loop runs the files are exactly what the loop writes when the lines read
\* so far whose context no requested pattern expands to are taken out of the
\* input: such a line is written to no group and changes nothing for the
\* lines that follow.
C17_RoutingMiss ==
    /\ ValidArgs(args) => pc # "raised"
    /\ pc = "route" =>
           files = RouteFold(OpenHandles(NoFiles, args, NoChunk), args, NoChunk,
                             SelectSeq(SubSeq(allc, 1, read_idx), Routable), 1)

\* a line no pattern matches has been read, and the line after it written
C17_Witness ==
    /\ pc = "route"
    /\ read_idx = 2
    /\ ~ Routable(allc[1])
    /\ Routable(allc[2])
    /\ \E path \in DOMAIN files : files[path] # <<>>

\* the strand labels of the output groups of a strand mode
GroupLabels(strandness) ==
    CASE strandness = "both" -> {"Both"}
      [] strandness = "split" -> {"Watson", "Crick"}
      [] strandness = "merge" -> {"Merge"}

\* one entry per output group: (pattern, label, suffix) mapped to
\* {output_prefix}.{pattern}-{label}.{suffix}
ReturnMapping ==
    LET patterns == {args.mc_contexts[i] : i \in 1..Len(args.mc_contexts)}
        suffix   == IF args.output_format = "allc" THEN "allc.tsv.gz" ELSE "bed5.bed.gz"
        keys     == {<<m, l, suffix>> : m \in patterns, l \in GroupLabels(args.strandness)}
    IN  [key \in keys |-> <<NoChunk, key[1], key[2], key[3]>>]

CGPattern(mc_context) == mc_context \in {"CGN", "cgn"}

\* what the routing loop of the un-parallelized call writes
Routed == RouteFold(OpenHandles(NoFiles, args, NoChunk), args, NoChunk, allc, 1)

\* the path of a group of the call
GroupPath(mc_context, label) ==
    <<NoChunk, mc_context, label,
      IF args.output_format = "allc" THEN "allc.tsv.gz" ELSE "bed5.bed.gz">>

\* C19: when an un-parallelized Merge call has returned, for every requested
\* pattern without CG the file at the path returned under
\* (pattern, 'Merge', suffix) exists and holds exactly the lines of the
\* temporary stream, and the temporary file is gone.
C19_NonCGRenamedToMerge ==
    (pc = "done" /\ args.cpu = 1 /\ args.strandness = "merge") =>
        \A key \in DOMAIN ret :
            ~ CGPattern(key[1]) =>
                /\ ret[key] \in DOMAIN files
                /\ files[ret[key]] = Routed[GroupPath(key[1], "MergeTmp")]
                /\ GroupPath(key[1], "MergeTmp") \notin DOMAIN files

\* C20: when an un-parallelized call has returned, in Merge mode the Merge
\* file of every requested CG pattern is the reducer's output on the
\* temporary stream and the temporary file is removed; in Both and Split
\* mode every file is as the routing loop wrote it.
C20_ReducerApplicability ==
    (pc = "done" /\ args.cpu = 1) =>
        /\ args.strandness = "merge" =>
               \A i \in 1..Len(args.mc_contexts) :
                   CGPattern(args.mc_contexts[i]) =>
                       /\ GroupPath(args.mc_contexts[i], "Merge") \in DOMAIN files
                       /\ files[GroupPath(args.mc_contexts[i], "Merge")] =
                              MergeCgStrand(Routed[GroupPath(args.mc_contexts[i], "MergeTmp")])
                       /\ GroupPath(args.mc_contexts[i], "MergeTmp") \notin DOMAIN files
        /\ args.strandness # "merge" => files = Routed

\* the group files a routed line must reach: for every requested pattern
\* that matches, in Split mode the Watson file for '+' and the Crick file
\* for '-', in Both and Merge mode the one file of the pattern
Destinations(line) ==
    {GroupPath(args.mc_contexts[i],
               CASE args.strandness = "split" ->
                        (IF line[3] = "+" THEN "Watson" ELSE "Crick")
                 [] args.strandness = "merge" -> "MergeTmp"
                 [] OTHER -> "Both") :
        i \in {j \in 1..Len(args.mc_contexts) : line[4] \in ParseMcPattern(args.mc_contexts[j])}}

\* C21: a step of the routing loop on a line that passes the cutoff appends
\* to exactly the files of Destinations: in Split mode a '+' line reaches the
\* Watson file of every matching pattern and no Crick file, a '-' line the
\* Crick file and no Watson file; in Both and Merge mode the files are those
\* of the matching patterns whatever the strand.
C21_SplitRouting ==
    [][(pc = "route" /\ read_idx' = read_idx + 1
            /\ allc[read_idx + 1][6] <= args.cov_cutoff) =>
          \A path \in DOMAIN files :
              Len(files'[path]) = Len(files[path])
                  + (IF path \in Destinations(allc[read_idx + 1]) THEN 1 ELSE 0)]_vars

\* a Split call has routed a '+' line into a Watson file and a '-' line into
\* a Crick file
C21_Witness ==
    /\ pc = "route"
    /\ args.strandness = "split"
    /\ read_idx = 2
    /\ allc[1][3] = "+" /\ allc[2][3] = "-"
    /\ \E m \in {"CGN", "CHN"} :
          /\ GroupPath(m, "Watson") \in DOMAIN files
          /\ Len(files[GroupPath(m, "Watson")]) = 1
          /\ Len(files[GroupPath(m, "Crick")]) = 1

---------------------------------------------------------------------------
(* Claims about binarization *)

\* the counts (mc, cov) of a line of the file at path
CountsOf(path, line) ==
    IF path[4] = "allc.tsv.gz" THEN <<line[5], line[6]>> ELSE <<line[4], line[5]>>

\* C22: when binarize is requested (Both or Split mode), every line of
\* every file, chunk file or final file, carries the counts that BinaryCount
\* gives for the counts of the input line at the same chromosome and
\* position, in the un-parallelized and in the parallel call.
C22_BinarizedOnce ==
    (args.binarize /\ args.strandness # "merge") =>
        \A path \in DOMAIN files :
            \A k \in 1..Len(files[path]) :
                \E i \in 1..Len(allc) :
                    /\ allc[i][1] = files[path][k][1]
                    /\ allc[i][2] = files[path][k][2]
                    /\ CountsOf(path, files[path][k]) = BinaryCount(allc[i][5], allc[i][6])

---------------------------------------------------------------------------
(* count_matrix/mcad.py: _count_single_allc as a state machine *)

\* p = None
NoP == "None"

\* the chromosomes and positions of the cell's ALLC file and of the bed
CntChroms == {1, 2}
CntPositions == {1, 2}

\* the lines of the cell's ALLC file
CntLines ==
    {<<c, q, "+", x, 1, 2, "1">> : c \in CntChroms, q \in CntPositions, x \in Contexts}

\* the rows of region_bed: chrom, start, end
BedRows == {<<c, r[1], r[2]>> : c \in CntChroms, r \in {<<0, 2>>, <<1, 2>>}}

\* the region beds of at most n rows
RECURSIVE Beds(_)
Beds(n) ==
    IF n = 0 THEN {<<>>}
    ELSE Beds(n - 1) \cup {Append(b, r) : b \in {x \in Beds(n - 1) : Len(x) = n - 1},
                                          r \in BedRows}

\* line 34: parse_mc_pattern(mc_pattern) of the modelled calls
CntPatterns == ParseMcPattern("CGN")

\* the tabix index of allc_path knows the chromosome: the file has a line of it
HasChrom(chrom) == \E i \in 1..Len(cnt_allc) : cnt_allc[i][1] = chrom

\* line 45: allc.fetch(chrom, start, end), zero-based half-open on pos - 1
Fetch(chrom, start, end) ==
    LET In(line) == line[1] = chrom /\ start < line[2] /\ line[2] <= end
    IN  SelectSeq(cnt_allc, In)

\* lines 50-54: <<total_mc, total_cov>> over the lines of the iterator
RECURSIVE RegionTotals(_)
RegionTotals(lines) ==
    IF lines = <<>> THEN <<0, 0>>
    ELSE LET rest == RegionTotals(Tail(lines))
         IN  IF Head(lines)[4] \in CntPatterns
             THEN <<rest[1] + Head(lines)[5], rest[2] + Head(lines)[6]>>
             ELSE rest

\* line 59: bin_counts.sum(), <<mc_sum, cov_sum>>
RECURSIVE RecordSums(_)
RecordSums(records) ==
    IF records = <<>> THEN <<0, 0>>
    ELSE LET rest == RecordSums(Tail(records))
         IN  <<rest[1] + Head(records)[2], rest[2] + Head(records)[3]>>

\* no _count_single_allc call is modelled
CountIdle ==
    /\ bed = <<>> /\ cnt_allc = <<>> /\ cnt_idx = 0 /\ cnt_records = <<>>
    /\ cnt_p = NoP /\ cnt_pc = "idle"

\* no _merge_gz_files call is modelled on its own
GzIdle ==
    /\ gz_init = <<>>
    /\ gz_files = <<>> /\ gz_list = <<>> /\ gz_k = 0 /\ gz_tmp = <<>> /\ gz_pc = "idle"

\* no generate_mcad call is modelled
McadIdle ==
    /\ cells = 0 /\ global_path = FALSE /\ cutoff_ok = TRUE /\ hdf_exists = <<>>
    /\ gen_idy = 0 /\ submitted = {} /\ returned = {} /\ gen_pc = "idle"

\* no _filter_pos_by_region_df call and no Codebook is modelled
PosIdle ==
    /\ region_df = <<>> /\ pos_idx = <<>> /\ pos_i = 0 /\ region_row = 0
    /\ pos_list = <<>> /\ filter_pc = "idle"
    /\ mc_type = <<>> /\ mc_pos_cache = <<>> /\ mc_pos_bool_cache = <<>>
    /\ cb_prev = <<>> /\ cb_last = <<>> /\ cb_ret = <<>>

\* no BaseDSChrom is modelled
DsIdle ==
    /\ ds_continuity = <<>> /\ ds_offset = <<>> /\ ds_has_pos = <<>>
    /\ ds_last = <<>> /\ ds_result = "idle"

CountInit ==
    /\ bed \in Beds(MaxBed)
    /\ cnt_allc \in SortedStreams(CntLines, Cardinality(CntChroms) * Cardinality(CntPositions))
    /\ cnt_p \in {NoP, "global"}
    /\ cnt_idx = 0
    /\ cnt_records = <<>>
    /\ cnt_pc = "loop"
    /\ MergeIdle /\ ExtractIdle /\ ParallelIdle /\ PosIdle
    /\ GzIdle /\ McadIdle /\ DsIdle

\* mutant of CountMissing: the ValueError ends the loop over region_bed
CountMissingBreak ==
    /\ cnt_pc = "loop"
    /\ cnt_idx < Len(bed)
    /\ ~ HasChrom(bed[cnt_idx + 1][1])
    /\ cnt_idx' = Len(bed)
    /\ UNCHANGED <<bed, cnt_allc, cnt_records, cnt_p, cnt_pc,
                   mergeVars, extractVars, parallelVars, filterVars, codebookVars, gzVars, mcadVars, dsVars>>

\* lines 41-49: allc.fetch raises ValueError for a chromosome the file does
\* not have; the except clause continues with the next row
CountMissing ==
    /\ cnt_pc = "loop"
    /\ cnt_idx < Len(bed)
    /\ ~ HasChrom(bed[cnt_idx + 1][1])
    /\ cnt_idx' = cnt_idx + 1
    /\ UNCHANGED <<bed, cnt_allc, cnt_records, cnt_p, cnt_pc,
                   mergeVars, extractVars, parallelVars, filterVars, codebookVars, gzVars, mcadVars, dsVars>>

\* lines 41-55: one row of region_bed whose iterator is created
CountRegion ==
    /\ cnt_pc = "loop"
    /\ cnt_idx < Len(bed)
    /\ HasChrom(bed[cnt_idx + 1][1])
    /\ LET row    == bed[cnt_idx + 1]
           totals == RegionTotals(Fetch(row[1], row[2], row[3]))
       IN  cnt_records' = IF totals[2] > 0
                          THEN Append(cnt_records, <<cnt_idx, totals[1], totals[2]>>)
                          ELSE cnt_records
    /\ cnt_idx' = cnt_idx + 1
    /\ UNCHANGED <<bed, cnt_allc, cnt_p, cnt_pc,
                   mergeVars, extractVars, parallelVars, filterVars, codebookVars, gzVars, mcadVars, dsVars>>

\* lines 56-67: bin_counts is built, p is estimated from its sums when it is
\* None, and the call returns (the p-values it stores are not modelled)
CountFinish ==
    /\ cnt_pc = "loop"
    /\ cnt_idx = Len(bed)
    /\ cnt_p' = IF cnt_p = NoP THEN RecordSums(cnt_records) ELSE cnt_p
    /\ cnt_pc' = "done"
    /\ UNCHANGED <<bed, cnt_allc, cnt_idx, cnt_records,
                   mergeVars, extractVars, parallelVars, filterVars, codebookVars, gzVars, mcadVars, dsVars>>

CountNext == CountMissing \/ CountRegion \/ CountFinish

SpecCount == CountInit /\ [][CountNext]_vars

\* the rows of region_bed, by idx, whose chromosome the file has and whose
\* lines of a requested context have coverage
RECURSIVE ExpectedRecords(_)
ExpectedRecords(n) ==
    IF n = 0 THEN <<>>
    ELSE LET row    == bed[n]
             totals == RegionTotals(Fetch(row[1], row[2], row[3]))
         IN  IF HasChrom(row[1]) /\ totals[2] > 0
             THEN Append(ExpectedRecords(n - 1), <<n - 1, totals[1], totals[2]>>)
             ELSE ExpectedRecords(n - 1)

\* C23: the call never ends in an error; a row whose chromosome the file
\* does not have adds no record; and when the call returns every row of the
\* bed has been visited and records holds the row of every other region with
\* coverage, those after a missing chromosome included.
C23_RegionUnavailable ==
    /\ cnt_pc \in {"idle", "loop", "done"}
    /\ \A k \in 1..Len(cnt_records) : HasChrom(bed[cnt_records[k][1] + 1][1])
    /\ cnt_pc = "done" =>
           /\ cnt_idx = Len(bed)
           /\ cnt_records = ExpectedRecords(Len(bed))

\* the first row of the bed is on a chromosome the file does not have, and
\* the rows after it have given two records
C23_Witness ==
    /\ cnt_pc = "done"
    /\ Len(bed) = 3
    /\ ~ HasChrom(bed[1][1])
    /\ Len(cnt_records) = 2

---------------------------------------------------------------------------
(* Further claims about _merge_cg_strand *)

\* C24: a step of the loop on a line whose chromosome differs from that of
\* the held line writes one line, on the held line's chromosome and with the
\* held line's own counts, and holds the new line: lines of different
\* chromosomes are never merged, whatever their positions and strands.
C24_ChromBoundary ==
    [][(line_idx' = line_idx + 1 /\ prev_line # None
            /\ in_allc[line_idx + 1][1] # prev_line[1]) =>
          /\ prev_line' = in_allc[line_idx + 1]
          /\ Len(out_allc') = Len(out_allc) + 1
          /\ out_allc'[Len(out_allc')][1] = prev_line[1]
          /\ out_allc'[Len(out_allc')][5] = prev_line[5]
          /\ out_allc'[Len(out_allc')][6] = prev_line[6]]_vars

\* a '+' line at the end of a chromosome was followed by a '-' line at the
\* next position of the next chromosome: the first is written alone and the
\* second is held
C24_Witness ==
    /\ line_idx = 2
    /\ in_allc[1][1] # in_allc[2][1]
    /\ in_allc[1][3] = "+" /\ in_allc[2][3] = "-"
    /\ in_allc[2][2] = in_allc[1][2] + 1
    /\ out_allc = <<in_allc[1]>>
    /\ prev_line = in_allc[2]

\* C28: the lines of out_path are strictly ascending in pos within each
\* chromosome, and no two of them share (chrom, pos).
C28_StrictOutputOrder ==
    /\ \A k \in 1..(Len(out_allc) - 1) :
           out_allc[k][1] = out_allc[k + 1][1] => out_allc[k][2] < out_allc[k + 1][2]
    /\ \A j, k \in 1..Len(out_allc) :
           (j # k) => <<out_allc[j][1], out_allc[j][2]>> # <<out_allc[k][1], out_allc[k][2]>>

\* two '-' lines at neighbouring positions were written, each moved to
\* pos - 1, one right behind the other
C28_Witness ==
    /\ line_idx = 3
    /\ in_allc[1][3] = "-" /\ in_allc[2][3] = "-"
    /\ in_allc[1][1] = in_allc[3][1]
    /\ Len(out_allc) = 2
    /\ out_allc[2][2] = out_allc[1][2] + 1

\* sum of field f over lines
RECURSIVE FieldSum(_, _)
FieldSum(lines, f) ==
    IF lines = <<>> THEN 0 ELSE Head(lines)[f] + FieldSum(Tail(lines), f)

\* C29: when the call has returned, the mc of the output lines add up to
\* the mc of the input lines, and so do the cov.
C29_CountConservation ==
    MergeReturned =>
        /\ FieldSum(out_allc, 5) = FieldSum(in_allc, 5)
        /\ FieldSum(out_allc, 6) = FieldSum(in_allc, 6)

---------------------------------------------------------------------------
(* _merge_gz_files step by step *)

\* the group key and the output_path of the modelled call
GzKey == <<"CGN", "Both", "allc.tsv.gz">>
GzOutput == RealFilePath(GzKey)

\* line 108: bgzip writes output_path + 'tmp' + '.gz'
TmpGzPath(output_path) == Append(TmpPath(output_path), "gz")

\* what a chunk file may hold
GzContents ==
    {<<>>, <<<<1, 1, "+", "CGA", 1, 2, "1">>>>, <<<<1, 2, "-", "CGA", 0, 1, "0">>>>}

\* the chunk paths of GzKey of n chunks, in ascending chunk_id order
GzList(n) == [i \in 1..n |-> Path(i - 1, GzKey[1], GzKey[2], GzKey[3])]

\* the file systems a call on n chunks may begin with: every chunk file but
\* at most one exists, and output_path may hold a file already
GzFileSystems(n) ==
    {[q \in (dom \cup old) |-> IF q \in old THEN <<>> ELSE content[q[1] + 1]] :
        content \in [1..n -> GzContents],
        dom \in {d \in SUBSET {GzList(n)[i] : i \in 1..n} : Cardinality(d) >= n - 1},
        old \in {{}, {GzOutput}}}

GzInit ==
    /\ \E n \in 1..MaxChunks :
          /\ gz_list = GzList(n)
          /\ gz_init \in GzFileSystems(n)
    /\ gz_files = gz_init
    /\ gz_k = 0
    /\ gz_tmp = <<>>
    /\ gz_pc = "start"
    /\ MergeIdle /\ ExtractIdle /\ ParallelIdle /\ PosIdle
    /\ CountIdle /\ McadIdle /\ DsIdle

\* line 103: out_f is opened at output_path + 'tmp'
GzOpen ==
    /\ gz_pc = "start"
    /\ gz_files' = FsWrite(gz_files, TmpPath(GzOutput), <<>>)
    /\ gz_pc' = "read"
    /\ UNCHANGED <<gz_init, gz_list, gz_k, gz_tmp,
                   mergeVars, extractVars, parallelVars, filterVars, codebookVars, countVars, mcadVars, dsVars>>

\* lines 104-106: the next file of file_list is read and written to out_f
GzAppend ==
    /\ gz_pc = "read"
    /\ gz_k < Len(gz_list)
    /\ gz_list[gz_k + 1] \in DOMAIN gz_files
    /\ gz_tmp' = gz_tmp \o gz_files[gz_list[gz_k + 1]]
    /\ gz_files' = FsWrite(gz_files, TmpPath(GzOutput), gz_tmp')
    /\ gz_pc' = "rm"
    /\ UNCHANGED <<gz_init, gz_list, gz_k,
                   mergeVars, extractVars, parallelVars, filterVars, codebookVars, countVars, mcadVars, dsVars>>

\* line 105: open_gz raises for a file that does not exist
GzMissing ==
    /\ gz_pc = "read"
    /\ gz_k < Len(gz_list)
    /\ gz_list[gz_k + 1] \notin DOMAIN gz_files
    /\ gz_pc' = "raised"
    /\ UNCHANGED <<gz_init, gz_files, gz_list, gz_k, gz_tmp,
                   mergeVars, extractVars, parallelVars, filterVars, codebookVars, countVars, mcadVars, dsVars>>

\* mutant of GzRemove: the loop goes on without deleting the file
GzRemoveKeep ==
    /\ gz_pc = "rm"
    /\ gz_k' = gz_k + 1
    /\ gz_pc' = "read"
    /\ UNCHANGED <<gz_init, gz_files, gz_list, gz_tmp,
                   mergeVars, extractVars, parallelVars, filterVars, codebookVars, countVars, mcadVars, dsVars>>

\* line 107: rm -f of the file that was just appended
GzRemove ==
    /\ gz_pc = "rm"
    /\ gz_files' = FsRemove(gz_files, gz_list[gz_k + 1])
    /\ gz_k' = gz_k + 1
    /\ gz_pc' = "read"
    /\ UNCHANGED <<gz_init, gz_list, gz_tmp,
                   mergeVars, extractVars, parallelVars, filterVars, codebookVars, countVars, mcadVars, dsVars>>

\* lines 104, 108: the loop has ended, out_f is closed and bgzip replaces
\* output_path + 'tmp' by output_path + 'tmp.gz'
GzBgzip ==
    /\ gz_pc = "read"
    /\ gz_k = Len(gz_list)
    /\ gz_files' = FsWrite(FsRemove(gz_files, TmpPath(GzOutput)),
                           TmpGzPath(GzOutput), gz_tmp)
    /\ gz_pc' = "mv"
    /\ UNCHANGED <<gz_init, gz_list, gz_k, gz_tmp,
                   mergeVars, extractVars, parallelVars, filterVars, codebookVars, countVars, mcadVars, dsVars>>

\* lines 109-110: mv -f output_path + 'tmp.gz' output_path, and the return
GzMove ==
    /\ gz_pc = "mv"
    /\ gz_files' = FsWrite(FsRemove(gz_files, TmpGzPath(GzOutput)),
                           GzOutput, gz_files[TmpGzPath(GzOutput)])
    /\ gz_pc' = "done"
    /\ UNCHANGED <<gz_init, gz_list, gz_k, gz_tmp,
                   mergeVars, extractVars, parallelVars, filterVars, codebookVars, countVars, mcadVars, dsVars>>

GzNext == GzOpen \/ GzAppend \/ GzMissing \/ GzRemove \/ GzBgzip \/ GzMove

SpecMergeGz == GzInit /\ [][GzNext]_vars

\* the contents, at the beginning of the call, of the first n files of the
\* list, concatenated
RECURSIVE GzConcat(_)
GzConcat(n) ==
    IF n = 0 THEN <<>> ELSE GzConcat(n - 1) \o gz_init[gz_list[n]]

\* C25: at every moment of a merge task the chunk files that have been
\* deleted are the first gz_k of the list, all of them appended; out_f holds
\* the concatenation of the files appended so far, of which at most the last
\* still exists; the files after them are untouched; the final path is as it
\* was until the call returns, and then it holds the concatenation of every
\* chunk file, none of which remains, nor a tmp file.
C25_TemporaryFileConsumption ==
    LET appended == IF gz_pc = "rm" THEN gz_k + 1 ELSE gz_k
    IN  /\ \A i \in 1..Len(gz_list) :
               /\ i <= gz_k => gz_list[i] \notin DOMAIN gz_files
               /\ (i > gz_k /\ gz_list[i] \in DOMAIN gz_init) =>
                      /\ gz_list[i] \in DOMAIN gz_files
                      /\ gz_files[gz_list[i]] = gz_init[gz_list[i]]
        /\ \A i \in 1..appended : gz_list[i] \in DOMAIN gz_init
        /\ gz_tmp = GzConcat(appended)
        /\ gz_pc # "done" =>
               /\ (GzOutput \in DOMAIN gz_files) = (GzOutput \in DOMAIN gz_init)
               /\ GzOutput \in DOMAIN gz_files => gz_files[GzOutput] = gz_init[GzOutput]
        /\ gz_pc = "done" =>
               /\ gz_k = Len(gz_list)
               /\ gz_files[GzOutput] = GzConcat(Len(gz_list))
               /\ DOMAIN gz_files = {GzOutput}

\* the merge task of three chunk files that hold lines has returned
C25_Witness ==
    /\ gz_pc = "done"
    /\ Len(gz_list) = 3
    /\ Len(gz_files[GzOutput]) = 3

---------------------------------------------------------------------------
(* generate_mcad *)

\* what {temp_dir}/{name}.hdf of a cell holds: no file, a pv series of size
\* 0, or a pv series with values
HdfStates == {"absent", "empty", "data"}

\* the p a worker is given when the global table is read
GlobalP == "global"

GenInit ==
    /\ cells \in 1..MaxCells
    /\ global_path \in BOOLEAN
    /\ cutoff_ok \in BOOLEAN
    /\ hdf_exists \in [0..(cells - 1) -> HdfStates]
    /\ gen_idy = 0
    /\ submitted = {}
    /\ returned = {}
    /\ gen_pc = "start"
    /\ MergeIdle /\ ExtractIdle /\ ParallelIdle /\ PosIdle
    /\ GzIdle /\ CountIdle /\ DsIdle

\* lines 113-127: the cutoff is validated, the table is read, temp_dir is made
\* and global_mc is bound if and only if global_path is truthy
GenValidate ==
    /\ gen_pc = "start"
    /\ gen_pc' = IF cutoff_ok THEN "submit" ELSE "ValueError"
    /\ UNCHANGED <<cells, global_path, cutoff_ok, hdf_exists, gen_idy, submitted,
                   returned, mergeVars, extractVars, parallelVars, filterVars, codebookVars, gzVars, countVars,
                   dsVars>>

\* lines 133-137: a cell whose temp output exists is not submitted
GenSkip ==
    /\ gen_pc = "submit"
    /\ gen_idy < cells
    /\ hdf_exists[gen_idy] # "absent"
    /\ gen_idy' = gen_idy + 1
    /\ UNCHANGED <<cells, global_path, cutoff_ok, hdf_exists, submitted, returned,
                   gen_pc, mergeVars, extractVars, parallelVars, filterVars, codebookVars, gzVars, countVars,
                   dsVars>>

\* lines 138-148: the worker of the cell is submitted with p=global_mc.loc[cell_id]
GenSubmit ==
    /\ gen_pc = "submit"
    /\ gen_idy < cells
    /\ hdf_exists[gen_idy] = "absent"
    /\ global_path
    /\ submitted' = submitted \cup {<<gen_idy, GlobalP>>}
    /\ gen_idy' = gen_idy + 1
    /\ UNCHANGED <<cells, global_path, cutoff_ok, hdf_exists, returned, gen_pc,
                   mergeVars, extractVars, parallelVars, filterVars, codebookVars, gzVars, countVars, dsVars>>

\* line 144: global_mc was never bound, evaluating the argument raises
GenUnbound ==
    /\ gen_pc = "submit"
    /\ gen_idy < cells
    /\ hdf_exists[gen_idy] = "absent"
    /\ ~global_path
    /\ gen_pc' = "UnboundLocalError"
    /\ UNCHANGED <<cells, global_path, cutoff_ok, hdf_exists, gen_idy, submitted,
                   returned, mergeVars, extractVars, parallelVars, filterVars, codebookVars, gzVars, countVars,
                   dsVars>>

\* lines 133, 150: the submit loop has ended
GenSubmitted ==
    /\ gen_pc = "submit"
    /\ gen_idy = cells
    /\ gen_pc' = "wait"
    /\ UNCHANGED <<cells, global_path, cutoff_ok, hdf_exists, gen_idy, submitted,
                   returned, mergeVars, extractVars, parallelVars, filterVars, codebookVars, gzVars, countVars,
                   dsVars>>

\* lines 62-68: a submitted worker writes its pv series, which may have no
\* value above the cutoff, and returns
GenWorker ==
    /\ gen_pc \in {"submit", "wait"}
    /\ \E w \in submitted :
          /\ w[1] \notin returned
          /\ \E pv \in {"empty", "data"} :
                hdf_exists' = [hdf_exists EXCEPT ![w[1]] = pv]
          /\ returned' = returned \cup {w[1]}
    /\ UNCHANGED <<cells, global_path, cutoff_ok, gen_idy, submitted, gen_pc,
                   mergeVars, extractVars, parallelVars, filterVars, codebookVars, gzVars, countVars, dsVars>>

\* lines 150-191: every future has been yielded; the series of size 0 are
\* left out, np.concatenate raises ValueError on an empty list, else the
\* matrix is written and temp_dir is removed (cleanup=True)
GenAggregate ==
    /\ gen_pc = "wait"
    /\ returned = {w[1] : w \in submitted}
    /\ IF \E idy \in 0..(cells - 1) : hdf_exists[idy] = "data"
       THEN /\ gen_pc' = "done"
            /\ hdf_exists' = [idy \in 0..(cells - 1) |-> "absent"]
       ELSE /\ gen_pc' = "ValueError"
            /\ UNCHANGED hdf_exists
    /\ UNCHANGED <<cells, global_path, cutoff_ok, gen_idy, submitted, returned,
                   mergeVars, extractVars, parallelVars, filterVars, codebookVars, gzVars, countVars, dsVars>>

GenNext ==
    \/ GenValidate \/ GenSkip \/ GenSubmit \/ GenUnbound \/ GenSubmitted
    \/ GenWorker \/ GenAggregate

SpecMcad == GenInit /\ [][GenNext]_vars

\* C26: when global_path is not provided, generate_mcad does not fail on the
\* global table and every worker it submits is given p = None.
C26_NoGlobalTable ==
    (gen_pc # "idle" /\ ~global_path) =>
        /\ gen_pc # "UnboundLocalError"
        /\ \A w \in submitted : w[2] = NoP

---------------------------------------------------------------------------
(* BaseDSChrom: the continuity and offset properties *)

\* the datasets of the model
Datasets == 1..NumDS

\* attrs['__offset'] is None; a stored number v is <<v>>
NoOffset == <<>>

\* the values assigned to the offset property
OffsetValues == {NoOffset} \cup {<<v>> : v \in 0..MaxOffset}

\* the offset getter: a stored None reads as 0
Offset(ds) == IF ds_offset[ds] = NoOffset THEN 0 ELSE ds_offset[ds][1]

\* __init__: continuity = True, then offset = 0; a dataset may or may not
\* have pos coords
DsInit ==
    /\ ds_continuity = [ds \in Datasets |-> TRUE]
    /\ ds_offset = [ds \in Datasets |-> <<0>>]
    /\ ds_has_pos \in [Datasets -> BOOLEAN]
    /\ ds_last = <<1, "__init__", <<0>>>>
    /\ ds_result = "ok"
    /\ MergeIdle /\ ExtractIdle /\ ParallelIdle /\ PosIdle
    /\ GzIdle /\ CountIdle /\ McadIdle

\* mutant of DsSetContinuity: the stored offset is kept when continuity is
\* set to False
DsSetContinuityKeepOffset(ds) ==
    /\ ds_result # "idle"
    /\ \E value \in BOOLEAN :
          /\ ds_last' = <<ds, "continuity", value>>
          /\ IF ~value /\ ~ds_has_pos[ds]
             THEN /\ ds_result' = "AssertionError"
                  /\ UNCHANGED <<ds_continuity, ds_offset>>
             ELSE /\ ds_result' = "ok"
                  /\ ds_continuity' = [ds_continuity EXCEPT ![ds] = value]
                  /\ UNCHANGED ds_offset
    /\ UNCHANGED <<ds_has_pos, mergeVars, extractVars, parallelVars, filterVars, codebookVars, gzVars,
                   countVars, mcadVars>>

\* the continuity setter
DsSetContinuity(ds) ==
    /\ ds_result # "idle"
    /\ \E value \in BOOLEAN :
          /\ ds_last' = <<ds, "continuity", value>>
          /\ IF ~value
             THEN IF ~ds_has_pos[ds]
                  THEN /\ ds_result' = "AssertionError"
                       /\ UNCHANGED <<ds_continuity, ds_offset>>
                  ELSE /\ ds_result' = "ok"
                       /\ ds_offset' = [ds_offset EXCEPT ![ds] = NoOffset]
                       /\ ds_continuity' = [ds_continuity EXCEPT ![ds] = FALSE]
             ELSE /\ ds_result' = "ok"
                  /\ ds_continuity' = [ds_continuity EXCEPT ![ds] = TRUE]
                  /\ UNCHANGED ds_offset
    /\ UNCHANGED <<ds_has_pos, mergeVars, extractVars, parallelVars, filterVars, codebookVars, gzVars,
                   countVars, mcadVars>>

\* the offset setter
DsSetOffset(ds) ==
    /\ ds_result # "idle"
    /\ \E value \in OffsetValues :
          /\ ds_last' = <<ds, "offset", value>>
          /\ IF value # NoOffset /\ ~ds_continuity[ds]
             THEN /\ ds_result' = "ValueError"
                  /\ UNCHANGED ds_offset
             ELSE /\ ds_result' = "ok"
                  /\ ds_offset' = [ds_offset EXCEPT ![ds] = value]
    /\ UNCHANGED <<ds_continuity, ds_has_pos, mergeVars, extractVars, parallelVars, filterVars, codebookVars,
                   gzVars, countVars, mcadVars>>

\* _discontinuous_pos_selection, lines 255-258, with the result bound to the
\* name of the dataset: the selected dataset gets pos coords, its attr cache
\* is cleared and its continuity is set to False
DsDiscontinuousPosSelection(ds) ==
    /\ ds_result # "idle"
    /\ ds_last' = <<ds, "_discontinuous_pos_selection", ds_offset[ds]>>
    /\ ds_has_pos' = [ds_has_pos EXCEPT ![ds] = TRUE]
    /\ ds_offset' = [ds_offset EXCEPT ![ds] = NoOffset]
    /\ ds_continuity' = [ds_continuity EXCEPT ![ds] = FALSE]
    /\ ds_result' = "ok"
    /\ UNCHANGED <<mergeVars, extractVars, parallelVars, filterVars, codebookVars, gzVars, countVars, mcadVars>>

\* _continuous_pos_selection(start, end), with the result bound to the name
\* of the dataset: a discontinuous dataset raises ValueError; with start and
\* end both None the dataset itself is returned; otherwise start and end are
\* lowered by the offset, the selected dataset carries the attrs of the
\* dataset, and a non-None start, as lowered, is assigned to its offset;
\* start and end are None or a genomic position from the first one of the
\* dataset up to MaxOffset
DsContinuousPosSelection(ds) ==
    /\ ds_result # "idle"
    /\ \E start, end \in {NoOffset} \cup {<<v>> : v \in Offset(ds)..MaxOffset} :
          /\ ds_last' = <<ds, "_continuous_pos_selection", start, end>>
          /\ IF ~ds_continuity[ds]
             THEN /\ ds_result' = "ValueError"
                  /\ UNCHANGED ds_offset
             ELSE /\ ds_result' = "ok"
                  /\ IF start # NoOffset
                     THEN ds_offset' =
                            [ds_offset EXCEPT ![ds] = <<start[1] - Offset(ds)>>]
                     ELSE UNCHANGED ds_offset
    /\ UNCHANGED <<ds_continuity, ds_has_pos, mergeVars, extractVars, parallelVars,
                   filterVars, codebookVars, gzVars, countVars, mcadVars>>

DsNext ==
    \E ds \in Datasets :
        \/ DsSetContinuity(ds)
        \/ DsSetOffset(ds)
        \/ DsDiscontinuousPosSelection(ds)
        \/ DsContinuousPosSelection(ds)

SpecDS == DsInit /\ [][DsNext]_vars

\* C27: whatever was assigned to continuity and offset, a dataset whose
\* continuity is False stores offset None, which reads back as 0; and the
\* assignment of a non-None offset while continuity is False raises
\* ValueError and changes neither continuity nor the stored offset.
C27_ContinuityOffset ==
    /\ [](\A ds \in DOMAIN ds_continuity :
             ~ds_continuity[ds] => (ds_offset[ds] = NoOffset /\ Offset(ds) = 0))
    /\ [][(/\ ds_last'[2] = "offset"
           /\ ds_last'[3] # NoOffset
           /\ ~ds_continuity[ds_last'[1]]) =>
             (ds_result' = "ValueError" /\ UNCHANGED <<ds_continuity, ds_offset>>)]_vars
    /\ [][ds_result' = "ValueError" =>
             (~ds_continuity[ds_last'[1]] /\ UNCHANGED <<ds_continuity, ds_offset>>)]_vars

\* dataset 1 is discontinuous, stores no offset, and the assignment of the
\* offset MaxOffset to it has raised
C27_Witness ==
    /\ ds_result = "ValueError"
    /\ ds_last = <<1, "offset", <<MaxOffset>>>>
    /\ ~ds_continuity[1]
    /\ ds_offset[1] = NoOffset

\* C32: a continuous selection with a non-None genomic start returns a
\* dataset whose offset is that genomic start, whatever the offset of the
\* dataset it was applied to.
C32_SelectionOffset ==
    [][(/\ ds_last'[2] = "_continuous_pos_selection"
        /\ ds_result' = "ok"
        /\ ds_last'[3] # NoOffset) =>
          ds_offset'[ds_last'[1]] = ds_last'[3]]_vars

\* the same statement for a dataset whose offset is 0, where the lowered
\* start is the genomic start
C32_SelectionOffsetFromZero ==
    [][(/\ ds_last'[2] = "_continuous_pos_selection"
        /\ ds_result' = "ok"
        /\ ds_last'[3] # NoOffset
        /\ Offset(ds_last'[1]) = 0) =>
          ds_offset'[ds_last'[1]] = ds_last'[3]]_vars

\* the offset of a selection is the genomic start less the offset of the
\* dataset it was applied to
C32_SelectionOffsetLowered ==
    [][(/\ ds_last'[2] = "_continuous_pos_selection"
        /\ ds_result' = "ok"
        /\ ds_last'[3] # NoOffset) =>
          ds_offset'[ds_last'[1]] = <<ds_last'[3][1] - Offset(ds_last'[1])>>]_vars

---------------------------------------------------------------------------
(* Fan-out of extract_allc *)

\* the positions of a call that went down the parallel path
ParallelPcs == {"chunks", "chunk_error", "merge", "tabix", "done", "failed"}

\* C30: a call is on the parallel path only if it has no region, has a
\* chromosome-size table and cpu > 1; its chunk tasks are called with a
\* region, cpu 1 and tabix False and so are un-parallelized; there is at most
\* one task per chunk, no chunk-scoped file is ever indexed and nothing is
\* indexed before the index stage; and every call ends.
C30_NoNestedFanOut ==
    /\ [](pc \in ParallelPcs =>
             /\ ~ args.region /\ args.chrom_size_path /\ args.cpu > 1
             /\ TaskArgs(args).region
             /\ TaskArgs(args).cpu = 1
             /\ ~ TaskArgs(args).tabix
             /\ ~ IsParallel(TaskArgs(args))
             /\ Len(output_records) = Cardinality(Collected)
             /\ Ended \subseteq ChunkIds
             /\ \A path \in indexed : path[1] = NoChunk
             /\ pc \in {"chunks", "chunk_error", "merge"} => indexed = {})
    /\ [](pc = "serial_done" => output_records = <<>> /\ task_end = NoFiles)
    /\ <>(pc \in {"done", "failed", "serial_done"})

\* a parallel call on more than two chunks has returned with its index built
C30_Witness ==
    /\ pc = "done"
    /\ Len(regions) > 2
    /\ Cardinality(Collected) = Len(regions)
    /\ indexed # {}

---------------------------------------------------------------------------
(* _filter_pos_by_region_df as a state machine *)

\* the region_df values: at most n rows <<start, end>> with start < end, in
\* ascending order and non-overlapping, none starting before lo
RECURSIVE RegionRows(_, _)
RegionRows(lo, n) ==
    IF n = 0 THEN {<<>>}
    ELSE {<<>>} \cup
         UNION {{<<row>> \o rest : rest \in RegionRows(row[2], n - 1)} :
                  row \in {r \in (lo..MaxCoord) \X (lo..MaxCoord) : r[1] < r[2]}}

\* the call of _filter_pos_by_region_df(region_df, pos_idx), pos_idx being
\* positions in ascending order
FilterInit ==
    /\ region_df \in RegionRows(0, MaxRegions)
    /\ pos_idx \in {Ascending(S) : S \in SUBSET (0..MaxCoord)}
    /\ pos_i = 0
    /\ region_row = 0
    /\ pos_list = <<>>
    /\ filter_pc = "call"
    /\ mc_type = <<>> /\ mc_pos_cache = <<>> /\ mc_pos_bool_cache = <<>>
    /\ cb_prev = <<>> /\ cb_last = <<>> /\ cb_ret = <<>>
    /\ MergeIdle /\ ExtractIdle /\ ParallelIdle
    /\ GzIdle /\ CountIdle /\ McadIdle /\ DsIdle

\* lines 20-26: an empty region_df returns the empty array at once
FilterEnter ==
    /\ filter_pc = "call"
    /\ filter_pc' = IF Len(region_df) = 0 THEN "returned" ELSE "loop"
    /\ UNCHANGED <<region_df, pos_idx, pos_i, region_row, pos_list>>
    /\ UNCHANGED <<mergeVars, extractVars, parallelVars, codebookVars, gzVars,
                   countVars, mcadVars, dsVars>>

\* lines 28-29: a position not after cur_start is passed over; cur_start
\* and cur_end are those of the row region_row, as unpacked by lines 25, 36
FilterContinue ==
    /\ filter_pc = "loop"
    /\ pos_i < Len(pos_idx)
    /\ pos_idx[pos_i + 1] <= region_df[region_row + 1][1]
    /\ pos_i' = pos_i + 1
    /\ UNCHANGED <<region_df, pos_idx, region_row, pos_list, filter_pc>>
    /\ UNCHANGED <<mergeVars, extractVars, parallelVars, codebookVars, gzVars,
                   countVars, mcadVars, dsVars>>

\* lines 39-40 when line 31 is false: a position inside the current region
\* is appended
FilterAppend ==
    /\ filter_pc = "loop"
    /\ pos_i < Len(pos_idx)
    /\ LET pos == pos_idx[pos_i + 1]
           cur_start == region_df[region_row + 1][1]
           cur_end == region_df[region_row + 1][2]
       IN  /\ pos > cur_start
           /\ ~(pos > cur_end)
           /\ pos_list' = IF cur_start < pos /\ pos <= cur_end
                          THEN Append(pos_list, pos) ELSE pos_list
    /\ pos_i' = pos_i + 1
    /\ UNCHANGED <<region_df, pos_idx, region_row, filter_pc>>
    /\ UNCHANGED <<mergeVars, extractVars, parallelVars, codebookVars, gzVars,
                   countVars, mcadVars, dsVars>>

\* lines 31-40: a position after cur_end moves region_row one row on; past
\* the last row the loop breaks, otherwise the position is appended if it
\* is inside that next row
FilterAdvance ==
    /\ filter_pc = "loop"
    /\ pos_i < Len(pos_idx)
    /\ LET pos == pos_idx[pos_i + 1]
           cur_start == region_df[region_row + 1][1]
           cur_end == region_df[region_row + 1][2]
       IN  /\ pos > cur_start
           /\ pos > cur_end
           /\ region_row' = region_row + 1
           /\ IF region_row + 1 >= Len(region_df)
              THEN /\ filter_pc' = "returned"
                   /\ UNCHANGED <<pos_i, pos_list>>
              ELSE LET next == region_df[region_row + 2]
                   IN  /\ pos_list' = IF next[1] < pos /\ pos <= next[2]
                                      THEN Append(pos_list, pos) ELSE pos_list
                       /\ pos_i' = pos_i + 1
                       /\ UNCHANGED filter_pc
    /\ UNCHANGED <<region_df, pos_idx>>
    /\ UNCHANGED <<mergeVars, extractVars, parallelVars, codebookVars, gzVars,
                   countVars, mcadVars, dsVars>>

\* lines 41-42: pos_idx is exhausted and pos_list is returned
FilterReturn ==
    /\ filter_pc = "loop"
    /\ pos_i = Len(pos_idx)
    /\ filter_pc' = "returned"
    /\ UNCHANGED <<region_df, pos_idx, pos_i, region_row, pos_list>>
    /\ UNCHANGED <<mergeVars, extractVars, parallelVars, codebookVars, gzVars,
                   countVars, mcadVars, dsVars>>

FilterNext ==
    \/ FilterEnter
    \/ FilterContinue
    \/ FilterAppend
    \/ FilterAdvance
    \/ FilterReturn

SpecFilter == FilterInit /\ [][FilterNext]_vars

\* pos lies in some row of region_df: start < pos <= end
InSomeRegion(pos) ==
    \E r \in 1..Len(region_df) : region_df[r][1] < pos /\ pos <= region_df[r][2]

\* C31: the returned array is exactly the sub-list, in order, of the
\* positions that lie in some region, whatever number of regions without a
\* position lies before that region.
C31_FilterComplete ==
    filter_pc = "returned" => pos_list = SelectSeq(pos_idx, InSomeRegion)

\* every position of pos_list is one of the positions the loop has done and
\* lies in some region, and pos_list is in ascending order
C31_FilterSound ==
    /\ \A i \in 1..Len(pos_list) :
          /\ InSomeRegion(pos_list[i])
          /\ \E j \in 1..pos_i : pos_idx[j] = pos_list[i]
    /\ \A i \in 1..(Len(pos_list) - 1) : pos_list[i] < pos_list[i + 1]

\* the number of rows between the region of the previous position (the first
\* row for the first position) and the region of position number i, for a
\* position that lies in a region
RowsSkipped(i) ==
    LET RowOf(pos) == CHOOSE r \in 1..Len(region_df) :
                          region_df[r][1] < pos /\ pos <= region_df[r][2]
        before == {j \in 1..(i - 1) : InSomeRegion(pos_idx[j])}
        last == IF before = {} THEN 1
                ELSE RowOf(pos_idx[CHOOSE j \in before : \A h \in before : h <= j])
    IN  RowOf(pos_idx[i]) - last

\* the claim holds for the calls in which no position lies more than one row
\* after the row the loop stands on
C31_FilterCompleteOneRow ==
    (/\ filter_pc = "returned"
     /\ \A i \in 1..Len(pos_idx) :
           InSomeRegion(pos_idx[i]) => RowsSkipped(i) <= 1) =>
        pos_list = SelectSeq(pos_idx, InSomeRegion)

---------------------------------------------------------------------------
(* Codebook: get_mc_pos_bool, get_mc_pos and their caches *)

\* a Codebook as constructed: both caches empty; a place of the pos
\* dimension holds one context, or no cytosine ("-": every mc_type is 0)
CodebookInit ==
    /\ mc_type \in [0..(CodebookLen - 1) -> Contexts \cup {"-"}]
    /\ mc_pos_cache = <<>>
    /\ mc_pos_bool_cache = <<>>
    /\ cb_prev = <<>>
    /\ cb_last = <<"__init__">>
    /\ cb_ret = <<>>
    /\ region_df = <<>> /\ pos_idx = <<>> /\ pos_i = 0 /\ region_row = 0
    /\ pos_list = <<>> /\ filter_pc = "idle"
    /\ MergeIdle /\ ExtractIdle /\ ParallelIdle
    /\ GzIdle /\ CountIdle /\ McadIdle /\ DsIdle

\* _validate_mc_pattern on the patterns CGN, cgn, CHN and CG, for a codebook
\* with context_size 3 and c_pos 0: the upper-cased pattern, or ValueError
\* for a pattern that has not context_size letters
ValidateMcPattern(mc_pattern) ==
    LET upper == IF mc_pattern = "cgn" THEN "CGN" ELSE mc_pattern
        len == IF upper = "CG" THEN 2 ELSE 3
    IN  IF len # 3 THEN "ValueError" ELSE upper

\* get_mc_pos_bool(mc_pattern): the cached array, or the places at which one
\* of the mc types matching the pattern is not 0, which then go into the cache
GetMcPosBool(mc_pattern) ==
    /\ cb_last # <<>>
    /\ cb_prev' = cb_last
    /\ cb_last' = <<"get_mc_pos_bool", mc_pattern, NoOffset>>
    /\ LET key == ValidateMcPattern(mc_pattern)
           _bool == [i \in DOMAIN mc_type |-> mc_type[i] \in ParseMcPattern(key)]
       IN  IF key = "ValueError"
           THEN /\ cb_ret' = <<"ValueError">>
                /\ UNCHANGED mc_pos_bool_cache
           ELSE IF key \in DOMAIN mc_pos_bool_cache
                THEN /\ cb_ret' = mc_pos_bool_cache[key]
                     /\ UNCHANGED mc_pos_bool_cache
                ELSE /\ cb_ret' = _bool
                     /\ mc_pos_bool_cache' =
                          [p \in DOMAIN mc_pos_bool_cache \cup {key} |->
                             IF p = key THEN _bool ELSE mc_pos_bool_cache[p]]
    /\ UNCHANGED <<mc_type, mc_pos_cache>>
    /\ UNCHANGED <<mergeVars, extractVars, parallelVars, filterVars, gzVars,
                   countVars, mcadVars, dsVars>>

\* mutant of GetMcPos: the offset is added to the cached array itself
GetMcPosNoCopy(mc_pattern, offset) ==
    /\ cb_last # <<>>
    /\ cb_prev' = cb_last
    /\ cb_last' = <<"get_mc_pos", mc_pattern, offset>>
    /\ LET key == ValidateMcPattern(mc_pattern)
           hit == key \in DOMAIN mc_pos_cache
           bool_hit == key \in DOMAIN mc_pos_bool_cache
           _bool == IF bool_hit THEN mc_pos_bool_cache[key]
                    ELSE [i \in DOMAIN mc_type |->
                            mc_type[i] \in ParseMcPattern(key)]
           _pos == IF hit THEN mc_pos_cache[key]
                   ELSE Ascending({i \in DOMAIN _bool : _bool[i]})
           added == IF offset = NoOffset THEN _pos
                    ELSE [i \in 1..Len(_pos) |-> _pos[i] + offset[1]]
       IN  IF key = "ValueError"
           THEN /\ cb_ret' = <<"ValueError">>
                /\ UNCHANGED <<mc_pos_cache, mc_pos_bool_cache>>
           ELSE /\ mc_pos_bool_cache' =
                     IF hit \/ bool_hit THEN mc_pos_bool_cache
                     ELSE [p \in DOMAIN mc_pos_bool_cache \cup {key} |->
                             IF p = key THEN _bool ELSE mc_pos_bool_cache[p]]
                /\ mc_pos_cache' =
                     [p \in DOMAIN mc_pos_cache \cup {key} |->
                        IF p = key THEN added ELSE mc_pos_cache[p]]
                /\ cb_ret' = added
    /\ UNCHANGED mc_type
    /\ UNCHANGED <<mergeVars, extractVars, parallelVars, filterVars, gzVars,
                   countVars, mcadVars, dsVars>>

\* get_mc_pos(mc_pattern, offset): the positions come from the cache, or
\* are the places at which the array of get_mc_pos_bool is True (line 121
\* through the default pos coordinate, line 123 through np.where) and then
\* go into the cache; an offset is added to a copy of them
GetMcPos(mc_pattern, offset) ==
    /\ cb_last # <<>>
    /\ cb_prev' = cb_last
    /\ cb_last' = <<"get_mc_pos", mc_pattern, offset>>
    /\ LET key == ValidateMcPattern(mc_pattern)
           hit == key \in DOMAIN mc_pos_cache
           bool_hit == key \in DOMAIN mc_pos_bool_cache
           _bool == IF bool_hit THEN mc_pos_bool_cache[key]
                    ELSE [i \in DOMAIN mc_type |->
                            mc_type[i] \in ParseMcPattern(key)]
           _pos == IF hit THEN mc_pos_cache[key]
                   ELSE Ascending({i \in DOMAIN _bool : _bool[i]})
           copy == [i \in 1..Len(_pos) |-> _pos[i]]
       IN  IF key = "ValueError"
           THEN /\ cb_ret' = <<"ValueError">>
                /\ UNCHANGED <<mc_pos_cache, mc_pos_bool_cache>>
           ELSE /\ mc_pos_bool_cache' =
                     IF hit \/ bool_hit THEN mc_pos_bool_cache
                     ELSE [p \in DOMAIN mc_pos_bool_cache \cup {key} |->
                             IF p = key THEN _bool ELSE mc_pos_bool_cache[p]]
                /\ mc_pos_cache' =
                     IF hit THEN mc_pos_cache
                     ELSE [p \in DOMAIN mc_pos_cache \cup {key} |->
                             IF p = key THEN _pos ELSE mc_pos_cache[p]]
                /\ cb_ret' = IF offset = NoOffset THEN _pos
                             ELSE [i \in 1..Len(copy) |-> copy[i] + offset[1]]
    /\ UNCHANGED mc_type
    /\ UNCHANGED <<mergeVars, extractVars, parallelVars, filterVars, gzVars,
                   countVars, mcadVars, dsVars>>

\* any call: a valid pattern in either case or the too-short CG, and for
\* get_mc_pos an offset that is None or an integer
CodebookNext ==
    \E mc_pattern \in {"CGN", "cgn", "CHN", "CG"} :
        \/ GetMcPosBool(mc_pattern)
        \/ \E offset \in {NoOffset} \cup {<<k>> : k \in 0..MaxOffset} :
              GetMcPos(mc_pattern, offset)

SpecCodebook == CodebookInit /\ [][CodebookNext]_vars

\* the un-offset positions of an upper-cased pattern: the places of the
\* codebook whose context the pattern matches, in ascending order
McPositions(key) ==
    Ascending({i \in DOMAIN mc_type : mc_type[i] \in ParseMcPattern(key)})

\* C33: after any sequence of calls, every cached array holds the un-offset
\* positions of its pattern, and the last get_mc_pos call with a valid
\* pattern has returned those positions plus its offset, or those positions
\* themselves when it had no offset.
C33_CacheNeverMutated ==
    /\ \A key \in DOMAIN mc_pos_cache : mc_pos_cache[key] = McPositions(key)
    /\ (Len(cb_last) = 3 /\ cb_last[1] = "get_mc_pos"
          /\ ValidateMcPattern(cb_last[2]) # "ValueError") =>
         LET key == ValidateMcPattern(cb_last[2])
             k == IF cb_last[3] = NoOffset THEN 0 ELSE cb_last[3][1]
         IN  /\ key \in DOMAIN mc_pos_cache
             /\ cb_ret = [i \in 1..Len(McPositions(key)) |-> McPositions(key)[i] + k]

\* get_mc_pos('CGN', offset=MaxOffset) and then get_mc_pos('cgn') on a
\* codebook with a CG place: the second call has returned the cached array
C33_Witness ==
    /\ cb_prev = <<"get_mc_pos", "CGN", <<MaxOffset>>>>
    /\ cb_last = <<"get_mc_pos", "cgn", NoOffset>>
    /\ "CGN" \in DOMAIN mc_pos_cache
    /\ Len(cb_ret) > 0
    /\ cb_ret = mc_pos_cache["CGN"]

===========================================================================
